---- MODULE Spec2Model ----
(***************************************************************************)
(* Model of the hand-written WebSocket chat server                         *)
(* (src/server/WebSockets/server/server.go, lines 1-282): the frame codec, *)
(* the upgrade handshake, the per-connection handler WebSocketHandler and  *)
(* the hub with its locks.  One handler goroutine per connection; every    *)
(* blocking call and every Write call on a connection is one step.         *)
(*                                                                         *)
(* Strings are sequences of byte values, UTF-8 where Go reads runes:       *)
(* strings.TrimSpace also trims the Unicode white space, strings.EqualFold *)
(* and strings.ToLower also fold the runes that fold to an ASCII letter.   *)
(***************************************************************************)
EXTENDS Integers, Sequences, FiniteSets, TLC

\* ------------------------------------------------------------------ bounds
\* the number of Text frames the handlers take for broadcast, all together
MaxMsgs == 2

\* The two connections of the model, and the value of a mutex nobody holds.
Sessions == {1, 2}
NoOwner == 0

\* --------------------------------------------------------- program constants
OpText == 1
OpClose == 8
FinBit == 128
MaskBit == 128
Len16Marker == 126
Len64Marker == 127
MaxLen7 == 125
Limit16 == 65536
\* TLC integers are 32 bits wide.  Every negative int64 is represented by -1;
\* every length from 2^31 - 3 up to 2^47 - 1 by HugeLen, which exceeds the
\* length of every stream of the model; every length from 2^47 up to the largest
\* allocation of a 64-bit build (2^48 bytes) by NoMapLen; every larger positive
\* int64 by OverAlloc.  make([]byte, n) panics for a negative n and for
\* OverAlloc; for NoMapLen the runtime passes the length check and ends the
\* process with "fatal error: runtime: out of memory", the address space of
\* the process being 2^47 bytes; for HugeLen it depends on the machine.
HugeLen == 2147483645
NoMapLen == 2147483646
OverAlloc == 2147483647

\* The machine the process runs on: TRUE when it lets the runtime map an
\* allocation of HugeLen bytes, FALSE when such an allocation ends the process
\* as one of NoMapLen bytes does.  It does not change while the process runs.
VARIABLE canMapHuge

\* ----------------------------------------------------------- byte helpers
RECURSIVE XorBits(_, _, _)
XorBits(a, b, n) ==
    IF n = 0 THEN 0
    ELSE (((a % 2) + (b % 2)) % 2) + 2 * XorBits(a \div 2, b \div 2, n - 1)

\* a ^ b on bytes
AddByte(a, b) == (a + b) % 256

XorByte(a, b) == XorBits(a, b, 8)

RECURSIVE OrBits(_, _, _)
OrBits(a, b, n) ==
    IF n = 0 THEN 0
    ELSE (IF (a % 2) + (b % 2) > 0 THEN 1 ELSE 0) + 2 * OrBits(a \div 2, b \div 2, n - 1)

\* a | b on bytes
OrByte(a, b) == OrBits(a, b, 8)

\* byte(x): the low 8 bits of a non-negative int
ToByte(x) == x % 256

RECURSIVE Pow2(_)
Pow2(n) == IF n = 0 THEN 1 ELSE 2 * Pow2(n - 1)

\* x >> n for 0 <= x < 2^31
Shr(x, n) == IF n >= 31 THEN 0 ELSE x \div Pow2(n)

\* big-endian unsigned value of a byte sequence
RECURSIVE BigEndian(_)
BigEndian(bs) ==
    IF bs = <<>> THEN 0
    ELSE BigEndian(SubSeq(bs, 1, Len(bs) - 1)) * 256 + bs[Len(bs)]

\* int64(uint64(ext[0])<<56 | ... | uint64(ext[7])) for the 8 bytes ext
Len64(ext) ==
    IF ext[1] >= 128 THEN -1
    ELSE IF ext[1] # 0 \/ ext[2] > 1 \/ (ext[2] = 1 /\ \E i \in 3..8 : ext[i] # 0)
        THEN OverAlloc
    ELSE IF ext[2] = 1 \/ ext[3] >= 128 THEN NoMapLen
    ELSE IF \E i \in 3..4 : ext[i] # 0 THEN HugeLen
    ELSE IF ext[5] >= 128 THEN HugeLen
    ELSE LET n == BigEndian(SubSeq(ext, 5, 8))
         IN  IF n > HugeLen THEN HugeLen ELSE n

Take(bs, n) == SubSeq(bs, 1, n)
Drop(bs, n) == SubSeq(bs, n + 1, Len(bs))

\* ------------------------------------------------------------- frame codec
\* The result of readWebSocketFrame on a stream that delivers the bytes bs and
\* then ends: err is "none", "frag" (final bit unset), "io" (short read),
\* "panic" (make([]byte, n) with n negative or beyond the largest allocation)
\* or "fatal" (make([]byte, n) with an n the runtime cannot map: the process
\* ends there, no deferred call runs and no recover sees it).
FrameErr(e) == [err |-> e, opcode |-> 0, payload |-> <<>>]

UnmaskFromSecondKeyByte(payload, key) ==
    [i \in 1..Len(payload) |-> XorByte(payload[i], key[(i % 4) + 1])]

Unmask(payload, key) ==
    [i \in 1..Len(payload) |-> XorByte(payload[i], key[((i - 1) % 4) + 1])]

ReadPayload(opcode, mask, payloadLen, bs) ==
    LET keyLen == IF mask THEN 4 ELSE 0
    IN  IF Len(bs) < keyLen THEN FrameErr("io")
        ELSE IF payloadLen < 0 \/ payloadLen = OverAlloc THEN FrameErr("panic")
        ELSE IF payloadLen = NoMapLen \/ (payloadLen = HugeLen /\ ~canMapHuge)
            THEN FrameErr("fatal")
        ELSE IF Len(bs) - keyLen < payloadLen THEN FrameErr("io")
        ELSE LET raw == SubSeq(bs, keyLen + 1, keyLen + payloadLen)
             IN  [err |-> "none", opcode |-> opcode,
                  payload |-> IF mask THEN Unmask(raw, Take(bs, 4)) ELSE raw]

\* fin := (header[0] & 0x80) != 0  (line 202)
FinalBitIgnored(b) == TRUE

FinalBit(b) == b >= FinBit

readWebSocketFrame(bs) ==
    IF Len(bs) < 2 THEN FrameErr("io")
    ELSE LET fin    == FinalBit(bs[1])
             opcode == bs[1] % 16
             mask   == bs[2] >= MaskBit
             len7   == bs[2] % 128
             rest   == Drop(bs, 2)
         IN  IF ~fin THEN FrameErr("frag")
             ELSE IF len7 = Len16Marker THEN
                 IF Len(rest) < 2 THEN FrameErr("io")
                 ELSE ReadPayload(opcode, mask, BigEndian(Take(rest, 2)), Drop(rest, 2))
             ELSE IF len7 = Len64Marker THEN
                 IF Len(rest) < 8 THEN FrameErr("io")
                 ELSE ReadPayload(opcode, mask, Len64(Take(rest, 8)),
                                  Drop(rest, 8))
             ELSE ReadPayload(opcode, mask, len7, rest)

\* The header that writeWebSocketFrame builds for a payload of n bytes.
FrameHeaderShortUpTo126(opcode, n) ==
    IF n <= MaxLen7 + 1 THEN <<OrByte(FinBit, opcode), ToByte(n)>>
    ELSE IF n < Limit16 THEN
        <<OrByte(FinBit, opcode), Len16Marker, ToByte(Shr(n, 8)), ToByte(n % 256)>>
    ELSE <<OrByte(FinBit, opcode), Len64Marker,
           ToByte(Shr(n, 56)), ToByte(Shr(n, 48)), ToByte(Shr(n, 40)), ToByte(Shr(n, 32)),
           ToByte(Shr(n, 24)), ToByte(Shr(n, 16)), ToByte(Shr(n, 8)), ToByte(n)>>

FrameHeader(opcode, n) ==
    IF n <= MaxLen7 THEN <<OrByte(FinBit, opcode), ToByte(n)>>
    ELSE IF n < Limit16 THEN
        <<OrByte(FinBit, opcode), Len16Marker, ToByte(Shr(n, 8)), ToByte(n % 256)>>
    ELSE <<OrByte(FinBit, opcode), Len64Marker,
           ToByte(Shr(n, 56)), ToByte(Shr(n, 48)), ToByte(Shr(n, 40)), ToByte(Shr(n, 32)),
           ToByte(Shr(n, 24)), ToByte(Shr(n, 16)), ToByte(Shr(n, 8)), ToByte(n)>>

\* All bytes of one frame as writeWebSocketFrame puts them on the stream.
FrameBytes(opcode, payload) == FrameHeader(opcode, Len(payload)) \o payload

\* ---------------------------------------------------------------- strings
\* The ASCII white space: \t \n \v \f \r and the space
IsSpace(b) == b \in {9, 10, 11, 12, 13, 32}

\* The UTF-8 encodings of the other runes of unicode.IsSpace: U+0085, U+00A0,
\* U+1680, U+2000..U+200A, U+2028, U+2029, U+202F, U+205F, U+3000
SpaceRunes ==
    {<<194, 133>>, <<194, 160>>, <<225, 154, 128>>}
        \cup {<<226, 128, b>> : b \in 128..138}
        \cup {<<226, 128, 168>>, <<226, 128, 169>>, <<226, 128, 175>>,
              <<226, 129, 159>>, <<227, 128, 128>>}

\* The width of the white-space rune s starts with, 0 when it starts with none
LeadingSpace(s) ==
    IF s = <<>> THEN 0
    ELSE IF IsSpace(s[1]) THEN 1
    ELSE IF \E r \in SpaceRunes : Len(s) >= Len(r) /\ SubSeq(s, 1, Len(r)) = r
        THEN Len(CHOOSE r \in SpaceRunes : Len(s) >= Len(r) /\ SubSeq(s, 1, Len(r)) = r)
    ELSE 0

\* The width of the white-space rune s ends with, 0 when it ends with none
TrailingSpace(s) ==
    IF s = <<>> THEN 0
    ELSE IF IsSpace(s[Len(s)]) THEN 1
    ELSE IF \E r \in SpaceRunes :
               Len(s) >= Len(r) /\ SubSeq(s, Len(s) - Len(r) + 1, Len(s)) = r
        THEN Len(CHOOSE r \in SpaceRunes :
                     Len(s) >= Len(r) /\ SubSeq(s, Len(s) - Len(r) + 1, Len(s)) = r)
    ELSE 0

RECURSIVE TrimLeft(_)
TrimLeft(s) ==
    IF LeadingSpace(s) > 0 THEN TrimLeft(SubSeq(s, LeadingSpace(s) + 1, Len(s))) ELSE s

RECURSIVE TrimRight(_)
TrimRight(s) ==
    IF TrailingSpace(s) > 0 THEN TrimRight(SubSeq(s, 1, Len(s) - TrailingSpace(s))) ELSE s

\* strings.TrimSpace
TrimSpace(s) == TrimRight(TrimLeft(s))

\* html.EscapeString: & ' < > " become &amp; &#39; &lt; &gt; &#34;
EscapeByte(b) ==
    CASE b = 38 -> <<38, 97, 109, 112, 59>>
      [] b = 39 -> <<38, 35, 51, 57, 59>>
      [] b = 60 -> <<38, 108, 116, 59>>
      [] b = 62 -> <<38, 103, 116, 59>>
      [] b = 34 -> <<38, 35, 51, 52, 59>>
      [] OTHER  -> <<b>>

RECURSIVE EscapeString(_)
EscapeString(s) == IF s = <<>> THEN <<>> ELSE EscapeByte(s[1]) \o EscapeString(Tail(s))

ToLowerByte(b) == IF b \in 65..90 THEN b + 32 ELSE b

\* The Kelvin sign U+212A folds to k and K, the long s U+017F to s and S; no
\* other rune beyond ASCII folds to an ASCII letter
RuneKelvin == <<226, 132, 170>>
RuneLongS == <<197, 191>>

\* s starts with the bytes r
StartsWith(s, r) == Len(s) >= Len(r) /\ SubSeq(s, 1, Len(r)) = r

RECURSIVE EqualFold(_, _)
\* strings.EqualFold(s, t) for an ASCII t, as "Upgrade" and "websocket" at
\* lines 171 and 174: rune by rune, an ASCII rune of s against the byte of t
\* whatever the case, the Kelvin sign against k or K, the long s against s or
\* S; any other rune of s, the U+FFFD of an invalid byte included, equals none
EqualFold(s, t) ==
    IF s = <<>> \/ t = <<>> THEN s = t
    ELSE IF s[1] < 128 THEN
        ToLowerByte(s[1]) = ToLowerByte(t[1]) /\ EqualFold(Tail(s), Tail(t))
    ELSE IF StartsWith(s, RuneKelvin) THEN
        ToLowerByte(t[1]) = 107 /\ EqualFold(SubSeq(s, 4, Len(s)), Tail(t))
    ELSE IF StartsWith(s, RuneLongS) THEN
        ToLowerByte(t[1]) = 115 /\ EqualFold(SubSeq(s, 3, Len(s)), Tail(t))
    ELSE FALSE

\* strings.Contains
Contains(s, sub) ==
    \E i \in 0..(Len(s) - Len(sub)) : SubSeq(s, i + 1, i + Len(sub)) = sub

StrUpgrade == <<85, 112, 103, 114, 97, 100, 101>>
StrWebsocket == <<119, 101, 98, 115, 111, 99, 107, 101, 116>>
Str13 == <<49, 51>>
StrAnonymous == <<65, 110, 111, 110, 121, 109, 111, 117, 115>>
StrColonSpace == <<58, 32>>

\* -------------------------------------------------------------- handshake
\* A request is the four header values the handler looks at.
isWebSocketUpgradeExactCase(r) ==
    /\ r.connection = StrUpgrade
    /\ r.upgrade = StrWebsocket
    /\ r.key # <<>>
    /\ Contains(r.version, Str13)

isWebSocketUpgrade(r) ==
    /\ EqualFold(r.connection, StrUpgrade)
    /\ EqualFold(r.upgrade, StrWebsocket)
    /\ r.key # <<>>
    /\ Contains(r.version, Str13)

SampleKey == <<100, 71, 104, 108>>

GoodRequest ==
    [connection |-> StrUpgrade, upgrade |-> StrWebsocket, key |-> SampleKey,
     version |-> Str13]

Requests ==
    { GoodRequest,
      [GoodRequest EXCEPT !.connection = <<117, 80, 71, 82, 65, 68, 69>>],
      [GoodRequest EXCEPT !.connection = <<107, 101, 101, 112>>],
      [GoodRequest EXCEPT !.upgrade = <<104, 50, 99>>],
      [GoodRequest EXCEPT !.key = <<>>],
      [GoodRequest EXCEPT !.version = <<>>],
      [GoodRequest EXCEPT !.version = <<56, 44, 32, 49, 51>>] }

\* ------------------------------------------------------------ frame inputs
\* What a peer can put on the stream for one read: the bytes that arrive before
\* the frame is complete or the stream ends.
InText   == <<129, 2, 104, 105>>
InClose  == <<136, 128, 1, 2, 3, 4>>
InPing   == <<137, 129, 1, 2, 3, 4, XorByte(32, 1)>>
InFrag   == <<1, 1, 104>>
InShort  == <<129, 5, 104>>
InNegLen == <<129, 127, 128, 0, 0, 0, 0, 0, 0, 0>>
InNoMap  == <<129, 127, 0, 0, 128, 0, 0, 0, 0, 0>>    \* 2^47 bytes declared
InHuge   == <<129, 127, 0, 0, 0, 1, 0, 0, 0, 0>>      \* 2^32 bytes declared

Inputs == {InText, InClose, InPing, InFrag, InShort, InNegLen, InNoMap, InHuge}

\* The first frame of each peer: the peer of connection 1 sends "Alice" unmasked,
\* as the client of this repository does; the peer of connection 2 sends " Bob"
\* masked, as a browser does.  Either peer may also close or misbehave at once.
InAlice == <<129, 5, 65, 108, 105, 99, 101>>
InBob   == <<129, 132, 1, 2, 3, 4,
             XorByte(32, 1), XorByte(66, 2), XorByte(111, 3), XorByte(98, 4)>>

FirstInputs(s) ==
    {IF s = 1 THEN InAlice ELSE InBob, InClose, InFrag, InShort, InNegLen, InNoMap,
     InHuge}

\* ------------------------------------------------------------------ state
VARIABLES
    pc,          \* where each connection's handler goroutine stands
    resp,        \* the HTTP response written on the connection: "none", "400", "101"
    username,    \* client.username
    payload,     \* the payload of the Text frame being broadcast by the handler
    clients,     \* hub.clients
    hubMu,       \* the holder of hub.mu, or NoOwner
    cMu,         \* the holder of each client.mu, or NoOwner
    todo,        \* the clients the handler's broadcast loop has not visited yet
    cur,         \* the client whose send the handler is in, or NoOwner
    wire,        \* the Write calls that succeeded on each conn after the handshake
    connClosed,  \* the number of conn.Close calls on each conn
    peerGone,    \* the peer of the conn is gone: every later Write fails
    nsent,       \* the number of Text frames the handlers have taken for broadcast
    bcasts,      \* history: one record per broadcast, in hub-lock order
    unregCount,  \* history: the number of hub.unregister calls for each client
    fatalIn,     \* the handler in which a fatal error ended the server process, or NoOwner
    \* one frame through the codec (specification CodecSpec)
    codecPc,     \* what was done last: "idle", "start", "written", "masked", ...
    frameOpcode, \* the opcode given to writeWebSocketFrame
    framePayload,\* the payload given to writeWebSocketFrame
    maskKey,     \* the 4-byte key of the mask step, <<>> when there was none
    stream,      \* the bytes on the stream
    decoded,     \* what readWebSocketFrame returned for the stream ("pending": not called)
    \* one upgrade request through the handler (specification HandshakeSpec)
    hsPc,        \* where the handler stands: "idle", "check", "hijack", ...
    request,     \* the header values of the request
    hsLog,       \* history: what the handler did on the connection, in order
    \* calls on a hub outside any handler (specification HubSpec)
    hubCall,     \* history: the last call, with hub.clients before it
    \* the client program (specification ClientSpec)
    clPc,        \* where the client's main goroutine stands, "exited": process over
    clConn,      \* the client's conn: "none", "open" or "closed"
    clLog,       \* history: what the main goroutine did, in order
    clRecv       \* history: the bytes that arrived for each read of the receive loop

hubVars == <<pc, resp, username, payload, clients, hubMu, cMu, todo, cur, wire,
             connClosed, peerGone, nsent, bcasts, unregCount, fatalIn>>

codecVars == <<codecPc, frameOpcode, framePayload, maskKey, stream, decoded>>

hsVars == <<hsPc, request, hsLog>>

callVars == <<hubCall>>

envVars == <<canMapHuge>>

clientVars == <<clPc, clConn, clLog, clRecv>>

vars == <<hubVars, codecVars, hsVars, callVars, clientVars, envVars>>

\* The codec on its own is not running
CodecIdle ==
    /\ codecPc = "idle"
    /\ frameOpcode = 0
    /\ framePayload = <<>>
    /\ maskKey = <<>>
    /\ stream = <<>>
    /\ decoded = FrameErr("pending")

\* No request is being followed step by step
HandshakeIdle ==
    /\ hsPc = "idle"
    /\ request = GoodRequest
    /\ hsLog = <<>>

\* No call on the hub from outside the handlers
CallIdle == hubCall = [op |-> "none", c |-> NoOwner, before |-> {}]

\* The client program is not running
ClientIdle ==
    /\ clPc = "idle"
    /\ clConn = "none"
    /\ clLog = <<>>
    /\ clRecv = <<>>

\* newHub: no client, every mutex free, no handler started
HubInit ==
    /\ pc = [s \in Sessions |-> "handshake"]
    /\ resp = [s \in Sessions |-> "none"]
    /\ username = [s \in Sessions |-> <<>>]
    /\ payload = [s \in Sessions |-> <<>>]
    /\ clients = {}
    /\ hubMu = NoOwner
    /\ cMu = [s \in Sessions |-> NoOwner]
    /\ todo = [s \in Sessions |-> {}]
    /\ cur = [s \in Sessions |-> NoOwner]
    /\ wire = [s \in Sessions |-> <<>>]
    /\ connClosed = [s \in Sessions |-> 0]
    /\ peerGone = [s \in Sessions |-> FALSE]
    /\ nsent = 0
    /\ bcasts = <<>>
    /\ unregCount = [s \in Sessions |-> 0]
    /\ fatalIn = NoOwner

\* Either kind of machine
Machine == canMapHuge \in BOOLEAN

Init ==
    /\ HubInit
    /\ Machine
    /\ CodecIdle
    /\ HandshakeIdle
    /\ CallIdle
    /\ ClientIdle

\* The server process runs: no fatal error of the runtime has ended it.  All
\* its goroutines stop where they stand when it ends.
Running == fatalIn = NoOwner

\* sync.Mutex: Lock returns only when nobody holds the mutex
MutexFreeAlways(m) == TRUE

MutexFree(m) == m = NoOwner

\* The results a Write on c's conn can have: it fails on a closed conn and once
\* the peer is gone; the peer can go at any time, and a Write is where the
\* program learns of it.
WriteOutcomes(c) ==
    IF peerGone[c] \/ connClosed[c] > 0 THEN {FALSE} ELSE {TRUE, FALSE}

\* One Write call on c's conn: the bytes reach the stream if the Write succeeds.
Chunk(b, part, bytes) == [b |-> b, part |-> part, bytes |-> bytes]

Write(c, chunk, ok) ==
    /\ wire' = IF ok THEN [wire EXCEPT ![c] = Append(@, chunk)] ELSE wire
    /\ peerGone' = [peerGone EXCEPT ![c] = @ \/ ~ok]

\* WebSocketHandler up to the 101 response (lines 101-125)
Handshake(s) ==
    /\ pc[s] = "handshake"
    /\ Running
    /\ \E r \in Requests, hijackOk \in BOOLEAN, ok \in WriteOutcomes(s) :
        IF ~isWebSocketUpgrade(r) THEN
            /\ resp' = [resp EXCEPT ![s] = "400"]
            /\ pc' = [pc EXCEPT ![s] = "done"]
            /\ UNCHANGED <<connClosed, peerGone>>
        ELSE IF ~hijackOk THEN
            /\ pc' = [pc EXCEPT ![s] = "done"]
            /\ UNCHANGED <<resp, connClosed, peerGone>>
        ELSE IF ~ok THEN
            /\ peerGone' = [peerGone EXCEPT ![s] = TRUE]
            /\ connClosed' = [connClosed EXCEPT ![s] = @ + 1]
            /\ pc' = [pc EXCEPT ![s] = "done"]
            /\ UNCHANGED resp
        ELSE
            /\ resp' = [resp EXCEPT ![s] = "101"]
            /\ pc' = [pc EXCEPT ![s] = "identity"]
            /\ UNCHANGED <<connClosed, peerGone>>
    /\ UNCHANGED <<username, payload, clients, hubMu, cMu, todo, cur, wire,
                   nsent, bcasts, unregCount>>
    /\ UNCHANGED fatalIn
    /\ UNCHANGED <<codecVars, hsVars, callVars, envVars, clientVars>>

\* The display name made of the first frame's payload (lines 139-144)
DisplayNameUnescaped(p) ==
    LET trimmed == TrimSpace(p)
    IN  IF trimmed = <<>> THEN StrAnonymous ELSE trimmed

DisplayName(p) ==
    LET trimmed == TrimSpace(p)
    IN  EscapeString(IF trimmed = <<>> THEN StrAnonymous ELSE trimmed)

\* The first frame is the username (lines 127-144)
ReadUsername(s) ==
    /\ pc[s] = "identity"
    /\ Running
    /\ \E in \in FirstInputs(s) :
        LET f == readWebSocketFrame(in)
        IN  IF f.err = "fatal" THEN
                /\ fatalIn' = s
                /\ UNCHANGED <<pc, username, connClosed>>
            ELSE IF f.err = "panic" THEN
                /\ pc' = [pc EXCEPT ![s] = "done"]
                /\ UNCHANGED <<username, connClosed, fatalIn>>
            ELSE IF f.err # "none" \/ f.opcode = OpClose THEN
                /\ connClosed' = [connClosed EXCEPT ![s] = @ + 1]
                /\ pc' = [pc EXCEPT ![s] = "done"]
                /\ UNCHANGED <<username, fatalIn>>
            ELSE
                /\ username' = [username EXCEPT ![s] = DisplayName(f.payload)]
                /\ pc' = [pc EXCEPT ![s] = "register"]
                /\ UNCHANGED <<connClosed, fatalIn>>
    /\ UNCHANGED <<resp, payload, clients, hubMu, cMu, todo, cur, wire, peerGone,
                   nsent, bcasts, unregCount>>
    /\ UNCHANGED <<codecVars, hsVars, callVars, envVars, clientVars>>

\* h.clients[c] = struct{}{}  (line 36)
AfterRegisterNothing(c) == clients

AfterRegisterAlone(c) == {c}

AfterRegister(c) == clients \cup {c}

\* globalHub.register(c)  (lines 145, 33-38)
Register(s) ==
    /\ pc[s] = "register"
    /\ Running
    /\ MutexFree(hubMu)
    /\ clients' = AfterRegister(s)
    /\ pc' = [pc EXCEPT ![s] = "read"]
    /\ UNCHANGED <<resp, username, payload, hubMu, cMu, todo, cur, wire, connClosed,
                   peerGone, nsent, bcasts, unregCount>>
    /\ UNCHANGED fatalIn
    /\ UNCHANGED <<codecVars, hsVars, callVars, envVars, clientVars>>

\* One turn of the read loop (lines 152-166)
ReadFrame(s) ==
    /\ pc[s] = "read"
    /\ Running
    /\ \E in \in Inputs :
        LET f == readWebSocketFrame(in)
        IN  IF f.err = "fatal" THEN
                /\ fatalIn' = s
                /\ UNCHANGED <<pc, payload, nsent>>
            ELSE IF f.err # "none" THEN
                /\ pc' = [pc EXCEPT ![s] = "unregister"]
                /\ UNCHANGED <<payload, nsent, fatalIn>>
            ELSE IF f.opcode = OpClose THEN
                /\ pc' = [pc EXCEPT ![s] = "close_hdr"]
                /\ UNCHANGED <<payload, nsent, fatalIn>>
            ELSE IF f.opcode = OpText THEN
                /\ nsent < MaxMsgs
                /\ payload' = [payload EXCEPT ![s] = f.payload]
                /\ nsent' = nsent + 1
                /\ pc' = [pc EXCEPT ![s] = "bcast_lock"]
                /\ UNCHANGED fatalIn
            ELSE
                UNCHANGED <<pc, payload, nsent, fatalIn>>
    /\ UNCHANGED <<resp, username, clients, hubMu, cMu, todo, cur, wire, connClosed,
                   peerGone, bcasts, unregCount>>
    /\ UNCHANGED <<codecVars, hsVars, callVars, envVars, clientVars>>

\* message := fmt.Sprintf("%s: %s", sender.username, string(msg))  (line 50)
MessageWithoutName(sender) == payload[sender]

Message(sender) == username[sender] \o StrColonSpace \o payload[sender]

\* The clients the loop of hub.broadcast ranges over (line 52)
RecipientsButSender(sender) == clients \ {sender}

RecipientsAllConnections(sender) == Sessions

Recipients(sender) == clients

\* hub.mu stays with the broadcasting handler until hub.broadcast returns (line 49)
HolderReleasedEarly(s) == NoOwner

HolderDuringBroadcast(s) == s

\* The broadcast the handler s is in: its latest one
FirstBcast(s) ==
    CHOOSE n \in 1..Len(bcasts) :
        /\ bcasts[n].sender = s
        /\ \A m \in 1..(n - 1) : bcasts[m].sender # s

CurrentBcast(s) ==
    CHOOSE n \in 1..Len(bcasts) :
        /\ bcasts[n].sender = s
        /\ \A m \in (n + 1)..Len(bcasts) : bcasts[m].sender # s

\* hub.broadcast takes hub.mu (lines 47-51)
BroadcastLock(s) ==
    /\ pc[s] = "bcast_lock"
    /\ Running
    /\ MutexFree(hubMu)
    /\ hubMu' = HolderDuringBroadcast(s)
    /\ todo' = [todo EXCEPT ![s] = Recipients(s)]
    /\ bcasts' = Append(bcasts,
                        [sender |-> s, rcvd |-> payload[s], members |-> clients,
                         failed |-> {}, done |-> FALSE])
    /\ pc' = [pc EXCEPT ![s] = "bcast"]
    /\ UNCHANGED <<resp, username, payload, clients, cMu, cur, wire, connClosed,
                   peerGone, nsent, unregCount>>
    /\ UNCHANGED fatalIn
    /\ UNCHANGED <<codecVars, hsVars, callVars, envVars, clientVars>>

\* The loop of hub.broadcast goes on whatever c.send returned (line 53)
ContinueOnlyIfSent(sendOk) == sendOk

ContinueAfter(sendOk) == TRUE

\* What is left of the loop after the send to c returned
Remaining(s, c, sendOk) == IF ContinueAfter(sendOk) THEN todo[s] \ {c} ELSE {}

\* history: the send of s's broadcast to c returned
NoteSend(s, c, sendOk) ==
    IF sendOk THEN bcasts
    ELSE [bcasts EXCEPT ![CurrentBcast(s)].failed = @ \cup {c}]

\* client.send takes c.mu and writeWebSocketFrame writes the header (lines 63-66, 265)
SendHeader(s) ==
    /\ pc[s] = "bcast"
    /\ Running
    /\ \E c \in todo[s] : \E ok \in WriteOutcomes(c) :
        /\ MutexFree(cMu[c])
        /\ Write(c, Chunk(CurrentBcast(s), "hdr", FrameHeader(OpText, Len(Message(s)))), ok)
        /\ IF ok THEN
               /\ cMu' = [cMu EXCEPT ![c] = s]
               /\ cur' = [cur EXCEPT ![s] = c]
               /\ pc' = [pc EXCEPT ![s] = "send_pay"]
               /\ UNCHANGED <<todo, bcasts>>
           ELSE
               /\ todo' = [todo EXCEPT ![s] = Remaining(s, c, FALSE)]
               /\ bcasts' = NoteSend(s, c, FALSE)
               /\ UNCHANGED <<cMu, cur, pc>>
    /\ UNCHANGED <<resp, username, payload, clients, hubMu, connClosed,
                   nsent, unregCount>>
    /\ UNCHANGED fatalIn
    /\ UNCHANGED <<codecVars, hsVars, callVars, envVars, clientVars>>

\* writeWebSocketFrame writes the payload, client.send releases c.mu (lines 268-271)
SendPayload(s) ==
    /\ pc[s] = "send_pay"
    /\ Running
    /\ \E ok \in WriteOutcomes(cur[s]) :
        LET c == cur[s]
        IN  /\ Write(c, Chunk(CurrentBcast(s), "pay", Message(s)), ok)
            /\ cMu' = [cMu EXCEPT ![c] = NoOwner]
            /\ todo' = [todo EXCEPT ![s] = Remaining(s, c, ok)]
            /\ bcasts' = NoteSend(s, c, ok)
    /\ cur' = [cur EXCEPT ![s] = NoOwner]
    /\ pc' = [pc EXCEPT ![s] = "bcast"]
    /\ UNCHANGED <<resp, username, payload, clients, hubMu, connClosed,
                   nsent, unregCount>>
    /\ UNCHANGED fatalIn
    /\ UNCHANGED <<codecVars, hsVars, callVars, envVars, clientVars>>

\* hub.broadcast returns and releases hub.mu (line 49)
BroadcastUnlock(s) ==
    /\ pc[s] = "bcast"
    /\ Running
    /\ todo[s] = {}
    /\ hubMu' = NoOwner
    /\ bcasts' = [bcasts EXCEPT ![CurrentBcast(s)].done = TRUE]
    /\ payload' = [payload EXCEPT ![s] = <<>>]
    /\ pc' = [pc EXCEPT ![s] = "read"]
    /\ UNCHANGED <<resp, username, clients, cMu, todo, cur, wire, connClosed, peerGone,
                   nsent, unregCount>>
    /\ UNCHANGED fatalIn
    /\ UNCHANGED <<codecVars, hsVars, callVars, envVars, clientVars>>

\* After the Close acknowledgment the handler returns (line 161)
AfterCloseAckLoops == "read"

AfterCloseAck == "unregister"

\* The Close acknowledgment: writeWebSocketFrame(conn, 0x8, []byte{}), header
CloseHeader(s) ==
    /\ pc[s] = "close_hdr"
    /\ Running
    /\ \E ok \in WriteOutcomes(s) :
        /\ Write(s, Chunk(0, "hdr", FrameHeader(OpClose, 0)), ok)
        /\ pc' = [pc EXCEPT ![s] = IF ok THEN "close_pay" ELSE AfterCloseAck]
    /\ UNCHANGED <<resp, username, payload, clients, hubMu, cMu, todo, cur, connClosed,
                   nsent, bcasts, unregCount>>
    /\ UNCHANGED fatalIn
    /\ UNCHANGED <<codecVars, hsVars, callVars, envVars, clientVars>>

\* The Close acknowledgment: the Write of the empty payload
ClosePayload(s) ==
    /\ pc[s] = "close_pay"
    /\ Running
    /\ \E ok \in WriteOutcomes(s) : Write(s, Chunk(0, "pay", <<>>), ok)
    /\ pc' = [pc EXCEPT ![s] = AfterCloseAck]
    /\ UNCHANGED <<resp, username, payload, clients, hubMu, cMu, todo, cur, connClosed,
                   nsent, bcasts, unregCount>>
    /\ UNCHANGED fatalIn
    /\ UNCHANGED <<codecVars, hsVars, callVars, envVars, clientVars>>

\* delete(h.clients, c)  (line 43)
AfterUnregisterAll(c) == {}

AfterUnregisterNothing(c) == clients

AfterUnregister(c) == clients \ {c}

\* The deferred hub.unregister (lines 40-45, 147)
Unregister(s) ==
    /\ pc[s] = "unregister"
    /\ Running
    /\ MutexFree(hubMu)
    /\ clients' = AfterUnregister(s)
    /\ unregCount' = [unregCount EXCEPT ![s] = @ + 1]
    /\ pc' = [pc EXCEPT ![s] = "connclose"]
    /\ UNCHANGED <<resp, username, payload, hubMu, cMu, todo, cur, wire, connClosed,
                   peerGone, nsent, bcasts>>
    /\ UNCHANGED fatalIn
    /\ UNCHANGED <<codecVars, hsVars, callVars, envVars, clientVars>>

\* The deferred conn.Close (line 148)
ConnClose(s) ==
    /\ pc[s] = "connclose"
    /\ Running
    /\ connClosed' = [connClosed EXCEPT ![s] = @ + 1]
    /\ pc' = [pc EXCEPT ![s] = "done"]
    /\ UNCHANGED <<resp, username, payload, clients, hubMu, cMu, todo, cur, wire,
                   peerGone, nsent, bcasts, unregCount>>
    /\ UNCHANGED fatalIn
    /\ UNCHANGED <<codecVars, hsVars, callVars, envVars, clientVars>>

Next ==
    \/ \E s \in Sessions : Handshake(s)
    \/ \E s \in Sessions : ReadUsername(s)
    \/ \E s \in Sessions : Register(s)
    \/ \E s \in Sessions : ReadFrame(s)
    \/ \E s \in Sessions : BroadcastLock(s)
    \/ \E s \in Sessions : SendHeader(s)
    \/ \E s \in Sessions : SendPayload(s)
    \/ \E s \in Sessions : BroadcastUnlock(s)
    \/ \E s \in Sessions : CloseHeader(s)
    \/ \E s \in Sessions : ClosePayload(s)
    \/ \E s \in Sessions : Unregister(s)
    \/ \E s \in Sessions : ConnClose(s)

Spec == Init /\ [][Next]_vars

\* ------------------------------------------------ the session state machine
\* The state of section 4.3 a handler is in.  A handler that read its identity
\* frame is still Awaiting-Identity until hub.register returned; Closing is the
\* writing of the Close acknowledgment; Closed is everything after the handler
\* left its loop (or ended earlier), the deferred calls included.
State(s) ==
    CASE pc[s] = "handshake" -> "Handshaking"
      [] pc[s] \in {"identity", "register"} -> "AwaitingIdentity"
      [] pc[s] \in {"read", "bcast_lock", "bcast", "send_pay"} -> "Open"
      [] pc[s] \in {"close_hdr", "close_pay"} -> "Closing"
      [] OTHER -> "Closed"

\* ------------------------------------------------------------ the streams
\* The positions of the chunks of broadcast n, header or payload, on a stream
Positions(w, n, part) == {i \in 1..Len(w) : w[i].b = n /\ w[i].part = part}

\* Broadcast n reached c's stream as one frame: one header, then, before any
\* other broadcast's bytes, its payload, and the two decode to a Text frame.
DeliveredFrame(c, n) ==
    LET w == wire[c]
    IN  \E i \in 1..Len(w) :
            /\ w[i].b = n /\ w[i].part = "hdr"
            /\ \E j \in (i + 1)..Len(w) :
                /\ w[j].b = n /\ w[j].part = "pay"
                /\ \A k \in (i + 1)..(j - 1) : w[k].b = 0
                /\ LET f == readWebSocketFrame(w[i].bytes \o w[j].bytes)
                   IN  f.err = "none" /\ f.opcode = OpText /\ f.payload = w[j].bytes

\* No Write call of a broadcast shows twice on a stream
NoChunkTwice(w) ==
    \A i \in 1..Len(w) : \A j \in (i + 1)..Len(w) :
        (w[i].b # 0 /\ w[i].b = w[j].b) => w[i].part # w[j].part

\* The handlers that are between the two Write calls of a frame on c's stream
WritersInFlight(c) ==
    {s \in Sessions : pc[s] = "send_pay" /\ cur[s] = c}
        \cup {s \in {c} : pc[s] = "close_pay"}

\* ------------------------------------------------------------------ claims

\* C1: on every session stream at most one frame write is in flight, and the
\* header and the payload of a frame are never separated by bytes of another
\* frame (broadcast deliveries and the Close acknowledgment alike).
C1_OneFrameWriteInFlight ==
    \A c \in Sessions :
        /\ Cardinality(WritersInFlight(c)) <= 1
        /\ \A i \in 1..Len(wire[c]) :
            /\ (wire[c][i].part = "hdr" /\ i < Len(wire[c]))
                  => (wire[c][i + 1].part = "pay" /\ wire[c][i + 1].b = wire[c][i].b)
            /\ wire[c][i].part = "pay"
                  => (i > 1 /\ wire[c][i - 1].part = "hdr"
                            /\ wire[c][i - 1].b = wire[c][i].b)

\* C2: two broadcasts racing for the hub lock reach each stream as whole Text
\* frames: between a broadcast's header and its payload there are no bytes of
\* another broadcast, and a finished broadcast is on the stream of every member
\* whose writes succeeded as one well-formed frame.
C2_RacingBroadcastsWhole ==
    \A c \in Sessions :
        /\ \A i \in 1..Len(wire[c]) :
            (wire[c][i].b # 0 /\ wire[c][i].part = "hdr")
                => \A j \in (i + 1)..Len(wire[c]) :
                      (wire[c][j].b # 0 /\ \A k \in (i + 1)..(j - 1) : wire[c][k].b = 0)
                          => (wire[c][j].b = wire[c][i].b /\ wire[c][j].part = "pay")
        /\ \A n \in 1..Len(bcasts) :
            (bcasts[n].done /\ c \in bcasts[n].members \ bcasts[n].failed)
                => DeliveredFrame(c, n)

\* Both sessions are registered and each has a broadcast under way: one has
\* written its frame to both streams and still holds the hub lock, the other
\* one is waiting for that lock.
C2_Witness ==
    \E s \in Sessions, t \in Sessions :
        /\ pc[s] = "bcast" /\ todo[s] = {} /\ hubMu = s
        /\ pc[t] = "bcast_lock"
        /\ bcasts[CurrentBcast(s)].members = Sessions
        /\ \A c \in Sessions : DeliveredFrame(c, CurrentBcast(s))

\* C3 as stated: a session is in the Hub if and only if it is Open.
C3_MemberIffOpen ==
    \A s \in Sessions : (s \in clients) <=> (State(s) = "Open")

\* C3 amended: a session is in the Hub exactly from the return of its register
\* to the return of its deferred unregister, that is while it is Open, while it
\* is Closing, and in Closed as long as its unregister has not run.
C3_MemberFromRegisterToUnregister ==
    \A s \in Sessions :
        (s \in clients) <=>
            (State(s) \in {"Open", "Closing"} \/ pc[s] = "unregister")

\* A session that writes its Close acknowledgment while still in the Hub
C3_Witness ==
    \E s \in Sessions : pc[s] = "close_pay" /\ s \in clients

\* C4: a session that completed the handshake and has ended has had its stream
\* closed exactly once, is not in the Hub, and was not de-registered twice.
C4_ClosedReleasesStreamOnce ==
    \A s \in Sessions :
        (pc[s] = "done" /\ resp[s] = "101")
            => (connClosed[s] = 1 /\ unregCount[s] <= 1 /\ s \notin clients)

\* C5: a finished broadcast wrote one Text frame to every session that was
\* registered when it took the hub lock, the sender included, and to nobody
\* else; the payload is the sender's name, ": " and the received payload.
C5_BroadcastToEveryMember ==
    /\ \A c \in Sessions :
        /\ NoChunkTwice(wire[c])
        /\ \A i \in 1..Len(wire[c]) :
            wire[c][i].b # 0 =>
                LET b == bcasts[wire[c][i].b]
                IN  /\ c \in b.members
                    /\ wire[c][i].part = "pay" =>
                          wire[c][i].bytes = username[b.sender] \o <<58, 32>> \o b.rcvd
    /\ \A n \in 1..Len(bcasts) :
        bcasts[n].done =>
            /\ bcasts[n].sender \in bcasts[n].members
            /\ \A c \in bcasts[n].members \ bcasts[n].failed : DeliveredFrame(c, n)

\* A finished broadcast that reached both sessions, the sender among them
C5_Witness ==
    \E n \in 1..Len(bcasts) :
        /\ bcasts[n].done
        /\ bcasts[n].members = Sessions
        /\ bcasts[n].failed = {}
        /\ \A c \in Sessions : Positions(wire[c], n, "pay") # {}

\* C6: a finished broadcast in which the write to some recipient failed has
\* still sent the frame to every other member: each of them has the frame on
\* its stream, or its own write failed too.
C6_FailureDoesNotAbortFanOut ==
    \A n \in 1..Len(bcasts) :
        (bcasts[n].done /\ bcasts[n].failed # {})
            => \A c \in bcasts[n].members :
                  c \in bcasts[n].failed \/ DeliveredFrame(c, n)

\* The write to the first recipient visited failed, and the loop is now in
\* the middle of the frame for the next one.
C6_Witness ==
    \E s \in Sessions :
        /\ pc[s] = "send_pay"
        /\ bcasts[CurrentBcast(s)].failed # {}
        /\ cur[s] \notin bcasts[CurrentBcast(s)].failed

\* C7: once a broadcast with a failed write to a recipient has returned, that
\* recipient is out of the Hub or on its way out (Closing or Closed).
C7_FailedRecipientRemoved ==
    \A n \in 1..Len(bcasts) : \A c \in bcasts[n].failed :
        bcasts[n].done => (c \notin clients \/ State(c) \in {"Closing", "Closed"})

\* C8: on every stream the broadcast frames appear in the order in which the
\* broadcasts took the hub lock, so any two recipients see the same order.
C8_HubLockOrdersBroadcasts ==
    \A c \in Sessions :
        \A i \in 1..Len(wire[c]), j \in 1..Len(wire[c]) :
            (i < j /\ wire[c][i].b # 0 /\ wire[c][j].b # 0)
                => wire[c][i].b <= wire[c][j].b

\* Two broadcasts, each delivered to both sessions
C8_Witness ==
    /\ Len(bcasts) >= 2
    /\ \A c \in Sessions : \A n \in 1..2 : Positions(wire[c], n, "pay") # {}

\* A step in which the handler of s meets an error or tears the session down
ErrorStep(s) ==
    \/ pc[s] \in {"handshake", "identity"} /\ pc'[s] = "done"
    \/ pc[s] \in {"read", "close_hdr", "close_pay"} /\ pc'[s] = "unregister"
    \/ pc[s] \in {"unregister", "connclose"} /\ pc'[s] # pc[s]

\* What belongs to session t
Local(t) ==
    <<pc[t], t \in clients, username[t], payload[t], wire[t], connClosed[t],
      cMu[t], todo[t], cur[t], unregCount[t]>>

\* An error step of one session changes nothing of any other session, a
\* failed write of a broadcast changes no session's state or membership, and a
\* session that has ended holds no lock that others need.
ErrorStepsAreLocal ==
    /\ [][/\ \A s \in Sessions :
               ErrorStep(s) => \A t \in Sessions \ {s} : Local(t)' = Local(t)
          /\ (/\ peerGone' # peerGone
              /\ \E s \in Sessions : pc[s] \in {"bcast", "send_pay"} /\ todo'[s] # todo[s])
                 => /\ clients' = clients
                    /\ \A t \in Sessions : State(t)' = State(t)]_vars
    /\ [](\A s \in Sessions :
            State(s) = "Closed" => (hubMu # s /\ \A c \in Sessions : cMu[c] # s))

\* C9: what goes wrong on the connection of one session leaves the other
\* sessions as they are and able to go on: no Open session is stopped by
\* what the peer of another session sent.
C9_ErrorsAreLocal ==
    \A s \in Sessions : \A t \in Sessions \ {s} :
        State(t) = "Open" => fatalIn # s

\* One session has gone through an error and its teardown; afterwards the
\* other one registered and finished a broadcast of its own.
C9_Witness ==
    \E s \in Sessions, n \in 1..Len(bcasts) :
        /\ pc[s] = "done" /\ unregCount[s] = 1 /\ wire[s] = <<>>
        /\ bcasts[n].done /\ bcasts[n].members = Sessions \ {s}

Rank(st) ==
    CASE st = "Handshaking" -> 0
      [] st = "AwaitingIdentity" -> 1
      [] st = "Open" -> 2
      [] st = "Closing" -> 3
      [] st = "Closed" -> 4

\* C10: a session's state moves only forward, one state at a time or straight
\* to Closed from Handshaking, Awaiting-Identity or Open; a Closed session
\* stays Closed, takes no frame for broadcast and never enters the Hub again.
C10_StateOnlyForward ==
    [][\A s \in Sessions :
        /\ \/ State(s)' = State(s)
           \/ Rank(State(s)') = Rank(State(s)) + 1
           \/ State(s)' = "Closed" /\ State(s) \in {"Handshaking", "AwaitingIdentity", "Open"}
        /\ State(s) = "Closed" =>
            /\ State(s)' = "Closed"
            /\ s \in clients' => s \in clients
            /\ \A n \in 1..Len(bcasts') : bcasts'[n].sender = s => n <= Len(bcasts)
            /\ payload'[s] = payload[s]]_vars

\* A session that went through every state: it registered, broadcast, wrote
\* its Close acknowledgment and was torn down.
C10_Witness ==
    \E s \in Sessions :
        /\ pc[s] = "done"
        /\ unregCount[s] = 1
        /\ Positions(wire[s], 0, "pay") # {}
        /\ \E n \in 1..Len(bcasts) : bcasts[n].sender = s

\* --------------------------------------------------------- the client's view
\* The bytes on a conn, in the order of the Write calls that put them there
RECURSIVE StreamBytes(_)
StreamBytes(w) == IF w = <<>> THEN <<>> ELSE w[1].bytes \o StreamBytes(Tail(w))

\* What the reader goroutine of the client gets from its first
\* readWebSocketFrame(conn): the codec of the client is the codec of the server.
FirstReceived(c) == readWebSocketFrame(StreamBytes(wire[c]))

\* C11 as stated: Alice (connection 1) sent her identity and then "hi", and the
\* server has relayed it; Bob (connection 2) is connected, has sent nothing but
\* his identity and his stream works; then the first frame Bob's client reads
\* is a Text frame with the payload "Alice: hi".
C11_BobReceivesAliceHi ==
    ( /\ username[1] = <<65, 108, 105, 99, 101>>
      /\ \E n \in 1..Len(bcasts) :
            bcasts[n].sender = 1 /\ bcasts[n].rcvd = <<104, 105>> /\ bcasts[n].done
      /\ pc[2] = "read" /\ ~peerGone[2]
      /\ \A n \in 1..Len(bcasts) : bcasts[n].sender # 2 )
        => LET f == FirstReceived(2)
           IN  /\ f.err = "none" /\ f.opcode = OpText
               /\ f.payload = <<65, 108, 105, 99, 101, 58, 32, 104, 105>>

\* C11 amended: the same, for a "hi" that the server relays while Bob is
\* registered in the Hub; a broadcast finished before Bob registered is not
\* sent to him.
C11_BobRegisteredReceivesAliceHi ==
    ( /\ username[1] = <<65, 108, 105, 99, 101>>
      /\ \E n \in 1..Len(bcasts) :
            /\ bcasts[n].sender = 1 /\ bcasts[n].rcvd = <<104, 105>> /\ bcasts[n].done
            /\ 2 \in bcasts[n].members
      /\ pc[2] = "read" /\ ~peerGone[2]
      /\ \A n \in 1..Len(bcasts) : bcasts[n].sender # 2 )
        => LET f == FirstReceived(2)
           IN  /\ f.err = "none" /\ f.opcode = OpText
               /\ f.payload = <<65, 108, 105, 99, 101, 58, 32, 104, 105>>

\* Alice's first "hi" was relayed before Bob registered, her second one after:
\* Bob's stream holds one frame, "Alice: hi".
C11_Witness ==
    /\ Len(bcasts) = 2
    /\ bcasts[1].sender = 1 /\ bcasts[1].members = {1} /\ bcasts[1].done
    /\ bcasts[2].sender = 1 /\ bcasts[2].members = {1, 2} /\ bcasts[2].done
    /\ pc[2] = "read" /\ ~peerGone[2]
    /\ Len(wire[2]) = 2
    /\ FirstReceived(2).payload = <<65, 108, 105, 99, 101, 58, 32, 104, 105>>

\* ================================================== the codec on its own
\* One frame goes through writeWebSocketFrame, optionally through the mask step
\* of a peer, optionally loses its tail, and is read by readWebSocketFrame.

\* the longest payload of which every content over Alphabet is tried
MaxShort == 2
\* a stream is cut within its first MaxCut bytes, or loses its last byte only
MaxCut == 14

Alphabet == {0, 104, 255}

ShortPayloads == UNION {[1..n -> Alphabet] : n \in 0..MaxShort}

\* The lengths around the thresholds of the three length encodings
BoundaryLens == {125, 126, 127, 65535, 65536}

Pattern(n) == [i \in 1..n |-> (i * 7) % 256]

Payloads == ShortPayloads \cup {Pattern(n) : n \in BoundaryLens}

Opcodes == {OpText, OpClose}

MaskKeys == {<<0, 0, 0, 0>>, <<1, 2, 3, 4>>, <<255, 128, 127, 1>>}

\* The frames written: the two longest payloads go out as Text only, and are
\* masked with one key only.
FrameInputs ==
    {in \in Opcodes \X Payloads : Len(in[2]) < Limit16 - 1 \/ in[1] = OpText}

KeysFor(p) == IF Len(p) < Limit16 - 1 THEN MaskKeys ELSE {<<255, 128, 127, 1>>}

\* Streams a peer can send that writeWebSocketFrame never produces
RawStreams ==
    { <<129, 127, 0, 0, 0, 0, 0, 0, 0, 5, 1, 2, 3, 4, 5>>,
      <<129, 127, 0, 0, 0, 0, 0, 0, 0, 5, 1, 2, 3, 4>>,
      <<129, 255, 0, 0, 0, 0, 0, 0, 0, 5, 1, 2, 3, 4, 5, 6, 7, 8, 9>>,
      <<129, 126, 0, 3, 7, 8, 9>>,
      <<129, 126, 0, 3, 7, 8>>,
      <<129, 126, 0>>,
      <<129, 127, 0, 0, 0, 1, 0, 0, 0, 0, 1, 2>>,
      <<129, 127, 0, 0, 128, 0, 0, 0, 0, 0>>,
      <<129, 127, 0, 1, 0, 0, 0, 0, 0, 0>>,
      <<129, 127, 0, 2, 0, 0, 0, 0, 0, 0, 1, 2>>,
      <<129, 127, 128, 0, 0, 0, 0, 0, 0, 0>>,
      <<129, 255, 255, 255, 255, 255, 255, 255, 255, 255, 1, 2, 3, 4>>,
      <<129, 255, 255, 255, 255, 255, 255, 255, 255, 255, 1, 2>>,
      <<129, 130, 1, 2>>,
      <<129>>,
      <<1, 127>>,
      <<0, 130, 1, 2, 3, 4, 9, 9>> }

CodecInit ==
    /\ HubInit
    /\ Machine
    /\ HandshakeIdle
    /\ CallIdle
    /\ ClientIdle
    /\ codecPc = "start"
    /\ frameOpcode = 0
    /\ framePayload = <<>>
    /\ maskKey = <<>>
    /\ stream = <<>>
    /\ decoded = FrameErr("pending")

\* writeWebSocketFrame(w, opcode, payload) on a stream that takes both Writes
WriteFrame ==
    /\ codecPc = "start"
    /\ \E in \in FrameInputs :
        /\ frameOpcode' = in[1]
        /\ framePayload' = in[2]
        /\ stream' = FrameBytes(in[1], in[2])
    /\ codecPc' = "written"
    /\ UNCHANGED <<maskKey, decoded, hubVars, hsVars, callVars, envVars, clientVars>>

\* The masking of a payload by a peer: byte i is XORed with key[i mod 4]
PeerMask(p, key) ==
    [i \in 1..Len(p) |-> XorByte(p[i], key[((i - 1) % 4) + 1])]

\* The mask step of a peer on a frame as written: the mask bit is set, the key
\* follows the length and the payload is masked.
MaskStep ==
    /\ codecPc = "written"
    /\ \E key \in KeysFor(framePayload) :
        LET hdrLen == Len(stream) - Len(framePayload)
        IN  /\ maskKey' = key
            /\ stream' = [Take(stream, hdrLen) EXCEPT ![2] = @ + MaskBit]
                            \o key \o PeerMask(framePayload, key)
    /\ codecPc' = "masked"
    /\ UNCHANGED <<frameOpcode, framePayload, decoded, hubVars, hsVars, callVars, envVars, clientVars>>

\* The stream ends early: only the first n bytes of the frame arrive
Truncate ==
    /\ codecPc \in {"written", "masked"}
    /\ decoded.err = "pending"
    /\ \E n \in {k \in 0..(Len(stream) - 1) : k <= MaxCut \/ k = Len(stream) - 1} :
        stream' = Take(stream, n)
    /\ codecPc' = "cut"
    /\ frameOpcode' = 0
    /\ framePayload' = <<>>
    /\ maskKey' = <<>>
    /\ UNCHANGED <<decoded, hubVars, hsVars, callVars, envVars, clientVars>>

\* The peer sends the frame as a fragment: the final bit is cleared
ClearFin ==
    /\ codecPc \in {"written", "masked"}
    /\ decoded.err = "pending"
    /\ stream' = [stream EXCEPT ![1] = @ - FinBit]
    /\ codecPc' = "fragment"
    /\ UNCHANGED <<frameOpcode, framePayload, maskKey, decoded, hubVars, hsVars, callVars, envVars, clientVars>>

\* The peer sends bytes of its own making
SendRaw ==
    /\ codecPc = "start"
    /\ stream' \in RawStreams
    /\ codecPc' = "raw"
    /\ UNCHANGED <<frameOpcode, framePayload, maskKey, decoded, hubVars, hsVars, callVars, envVars, clientVars>>

\* readWebSocketFrame on the stream
Decode ==
    /\ codecPc \in {"written", "masked", "cut", "fragment", "raw"}
    /\ decoded.err = "pending"
    /\ decoded' = readWebSocketFrame(stream)
    /\ UNCHANGED <<codecPc, frameOpcode, framePayload, maskKey, stream, hubVars, hsVars, callVars, envVars, clientVars>>

\* The unmasking loop of readWebSocketFrame applied to a payload (lines 241-245)
XorOnce ==
    /\ codecPc = "start"
    /\ \E p \in Payloads : \E key \in KeysFor(p) :
        /\ framePayload' = p
        /\ maskKey' = key
        /\ stream' = Unmask(p, key)
    /\ codecPc' = "xored"
    /\ UNCHANGED <<frameOpcode, decoded, hubVars, hsVars, callVars, envVars, clientVars>>

\* ... and applied again to its own result, with the same key
XorTwice ==
    /\ codecPc = "xored"
    /\ stream' = Unmask(stream, maskKey)
    /\ codecPc' = "xored twice"
    /\ UNCHANGED <<frameOpcode, framePayload, maskKey, decoded, hubVars, hsVars, callVars, envVars, clientVars>>

CodecNext ==
    \/ WriteFrame
    \/ MaskStep
    \/ Truncate
    \/ ClearFin
    \/ SendRaw
    \/ Decode
    \/ XorOnce
    \/ XorTwice

CodecSpec == CodecInit /\ [][CodecNext]_vars

\* ------------------------------------------------------ claims on the codec

\* C12: a Text frame written by writeWebSocketFrame is read back by
\* readWebSocketFrame as opcode Text with the payload unchanged, as written and
\* after the mask step with any key, in each of the three length encodings.
C12_FrameRoundTrip ==
    (codecPc \in {"written", "masked"} /\ frameOpcode = OpText /\ decoded.err # "pending")
        => decoded = [err |-> "none", opcode |-> OpText, payload |-> framePayload]

\* A masked Text frame of 126 bytes, the first length of the 2-byte encoding,
\* read back
C12_Witness ==
    /\ codecPc = "masked" /\ maskKey = <<255, 128, 127, 1>>
    /\ frameOpcode = OpText
    /\ Len(framePayload) = 126 /\ stream[2] = 254 /\ Len(stream) = 134
    /\ stream[9] = 248 /\ framePayload[1] = 7
    /\ decoded.err = "none" /\ decoded.payload = framePayload

\* C13: XORing byte i of a payload with key[i mod 4], and then the result once
\* more with the same key, gives the payload back.
C13_MaskingInvolutive ==
    codecPc = "xored twice" => stream = framePayload

\* A payload of 127 bytes masked twice with a key of four different bytes
C13_Witness ==
    /\ codecPc = "xored twice" /\ maskKey = <<1, 2, 3, 4>>
    /\ Len(framePayload) = 127 /\ stream[127] = (127 * 7) % 256

\* C14: the frame written has the final bit set, the mask bit clear, the
\* shortest length encoding (0..125: the 7-bit field; 126..65535: marker 126
\* and 2 bytes, big-endian; from 65536: marker 127 and 8 bytes, big-endian) and
\* after the header exactly the payload.
C14_EncodeFrameHeader ==
    codecPc = "written" =>
        LET n == Len(framePayload)
            h == stream
        IN  /\ h[1] = 128 + frameOpcode
            /\ h[2] < 128
            /\ n <= 125 =>
                /\ h[2] = n
                /\ Len(h) = 2 + n /\ SubSeq(h, 3, Len(h)) = framePayload
            /\ (126 <= n /\ n <= 65535) =>
                /\ h[2] = 126 /\ h[3] = n \div 256 /\ h[4] = n % 256
                /\ Len(h) = 4 + n /\ SubSeq(h, 5, Len(h)) = framePayload
            /\ n >= 65536 =>
                /\ h[2] = 127
                /\ h[3] = 0 /\ h[4] = 0 /\ h[5] = 0 /\ h[6] = 0
                /\ h[7] * 16777216 + h[8] * 65536 + h[9] * 256 + h[10] = n
                /\ Len(h) = 10 + n /\ SubSeq(h, 11, Len(h)) = framePayload

\* A Close frame with 126 bytes: the first length that needs the 2-byte field
C14_Witness ==
    /\ codecPc = "written" /\ frameOpcode = OpClose /\ Len(framePayload) = 126
    /\ stream[2] = 126 /\ Len(stream) = 130

\* C15: a frame whose final bit is unset is answered with the fragmentation
\* error and neither opcode nor payload; every frame accepted and every frame
\* written has the final bit set.
C15_FragmentsRejected ==
    /\ (decoded.err # "pending" /\ Len(stream) >= 2 /\ stream[1] < 128)
          => decoded = [err |-> "frag", opcode |-> 0, payload |-> <<>>]
    /\ decoded.err = "none" => stream[1] >= 128
    /\ codecPc = "written" => stream[1] >= 128

\* A masked Text frame with a payload, sent with the final bit cleared, refused
C15_Witness ==
    /\ codecPc = "fragment" /\ maskKey # <<>> /\ Len(framePayload) = 2
    /\ stream[1] = OpText
    /\ decoded.err = "frag"

\* The number of header bytes of the frame that starts the stream bs: 2, the
\* extended length, the mask key
HeaderBytes(bs) ==
    2 + (IF bs[2] % 128 = 126 THEN 2 ELSE IF bs[2] % 128 = 127 THEN 8 ELSE 0)
      + (IF bs[2] >= 128 THEN 4 ELSE 0)

\* The length a complete header declares, when it is below 2^31
DeclaredLen(bs) ==
    IF bs[2] % 128 = 126 THEN bs[3] * 256 + bs[4]
    ELSE IF bs[2] % 128 = 127
        THEN bs[7] * 16777216 + bs[8] * 65536 + bs[9] * 256 + bs[10]
    ELSE bs[2] % 128

\* The stream ends before the frame that starts it is complete (no stream of
\* the model has 2^31 bytes)
EndsEarly(bs) ==
    \/ Len(bs) < 2
    \/ Len(bs) < HeaderBytes(bs)
    \/ /\ bs[2] % 128 = 127
       /\ \E i \in 3..6 : bs[i] # 0
    \/ bs[2] % 128 = 127 /\ bs[7] >= 128
    \/ Len(bs) - HeaderBytes(bs) < DeclaredLen(bs)

\* C16: a successful read returns exactly as many payload bytes as the header
\* declares (5 bytes for the 8-byte length 0x0000000000000005 followed by 5
\* bytes), and a stream that ends before the frame is complete gives an I/O
\* error and no payload.
C16_DecodedLengthOrIOError ==
    (decoded.err # "pending" /\ (Len(stream) < 2 \/ stream[1] >= 128)) =>
        /\ decoded.err = "none" =>
            /\ ~EndsEarly(stream)
            /\ Len(decoded.payload) = DeclaredLen(stream)
        /\ EndsEarly(stream) => decoded = [err |-> "io", opcode |-> 0, payload |-> <<>>]
        /\ stream = <<129, 127, 0, 0, 0, 0, 0, 0, 0, 5, 1, 2, 3, 4, 5>>
              => decoded.payload = <<1, 2, 3, 4, 5>>

\* C17: every frame that the decoder accepts has the mask bit set.
C17_AcceptedFramesAreMasked ==
    decoded.err = "none" => stream[2] >= 128

\* ================================================ the handshake on its own
\* crypto/sha1 on a byte string.  A 32-bit word is a pair <<high, low>> of
\* 16-bit halves, as TLC integers are 32 bits wide.
Xor16(a, b) == XorBits(a, b, 16)

And16(a, b) == (a + b - Xor16(a, b)) \div 2

WXor(x, y) == <<Xor16(x[1], y[1]), Xor16(x[2], y[2])>>

WAnd(x, y) == <<And16(x[1], y[1]), And16(x[2], y[2])>>

WNot(x) == <<65535 - x[1], 65535 - x[2]>>

\* x | y
WOr(x, y) == <<x[1] + y[1] - And16(x[1], y[1]), x[2] + y[2] - And16(x[2], y[2])>>

\* x + y modulo 2^32
WAdd(x, y) ==
    LET lo == x[2] + y[2]
        hi == x[1] + y[1] + (lo \div 65536)
    IN  <<hi % 65536, lo % 65536>>

\* bits.RotateLeft32(x, n) for 0 < n < 32
RotL(x, n) ==
    LET y == IF n >= 16 THEN <<x[2], x[1]>> ELSE x
        k == n % 16
    IN  IF k = 0 THEN y
        ELSE << ((y[1] * Pow2(k)) % 65536) + (y[2] \div Pow2(16 - k)),
                ((y[2] * Pow2(k)) % 65536) + (y[1] \div Pow2(16 - k)) >>

\* The message with its padding: 0x80, zeros up to 56 modulo 64, and the length
\* in bits as 8 bytes, big-endian (messages are shorter than 2^16 bytes)
ShaPad(msg) ==
    LET n     == Len(msg)
        zeros == (119 - (n % 64)) % 64
        bits  == n * 8
    IN  msg \o <<128>> \o [i \in 1..zeros |-> 0]
            \o <<0, 0, 0, 0, 0, (bits \div 65536) % 256, (bits \div 256) % 256, bits % 256>>

\* The 16 words of the 64-byte block that starts after byte off
BlockWords(bs, off) ==
    [i \in 1..16 |-> << bs[off + 4 * i - 3] * 256 + bs[off + 4 * i - 2],
                        bs[off + 4 * i - 1] * 256 + bs[off + 4 * i] >>]

\* The message schedule: w[t] = rotl1(w[t-3] ^ w[t-8] ^ w[t-14] ^ w[t-16])
RECURSIVE Schedule(_)
Schedule(w) ==
    IF Len(w) = 80 THEN w
    ELSE LET t == Len(w) + 1
         IN  Schedule(Append(w, RotL(WXor(WXor(w[t - 3], w[t - 8]),
                                          WXor(w[t - 14], w[t - 16])), 1)))

\* The round function and the round constant of round t (0..79)
ShaF(t, b, c, d) ==
    IF t < 20 THEN WOr(WAnd(b, c), WAnd(WNot(b), d))
    ELSE IF t < 40 THEN WXor(WXor(b, c), d)
    ELSE IF t < 60 THEN WOr(WOr(WAnd(b, c), WAnd(b, d)), WAnd(c, d))
    ELSE WXor(WXor(b, c), d)

ShaK(t) ==
    IF t < 20 THEN <<23170, 31129>>
    ELSE IF t < 40 THEN <<28377, 60321>>
    ELSE IF t < 60 THEN <<36635, 48348>>
    ELSE <<51810, 49622>>

\* The rounds st.t..79 on the working variables st.h = <<a, b, c, d, e>>
RECURSIVE Rounds(_, _)
Rounds(st, w) ==
    IF st.t = 80 THEN st.h
    ELSE LET h   == st.h
             tmp == WAdd(WAdd(WAdd(RotL(h[1], 5), ShaF(st.t, h[2], h[3], h[4])),
                              WAdd(h[5], ShaK(st.t))), w[st.t + 1])
         IN  Rounds([t |-> st.t + 1, h |-> <<tmp, h[1], RotL(h[2], 30), h[3], h[4]>>], w)

\* The blocks after byte off, starting from the chaining value h
RECURSIVE ShaBlocks(_, _, _)
ShaBlocks(h, bs, off) ==
    IF off >= Len(bs) THEN h
    ELSE LET r == Rounds([t |-> 0, h |-> h], Schedule(BlockWords(bs, off)))
         IN  ShaBlocks([i \in 1..5 |-> WAdd(h[i], r[i])], bs, off + 64)

\* sha1.Sum: the 20 bytes of the digest
Sha1(msg) ==
    LET h == ShaBlocks(<< <<26437, 8961>>, <<61389, 43913>>, <<39098, 56574>>,
                          <<4146, 21622>>, <<50130, 57840>> >>, ShaPad(msg), 0)
    IN  [i \in 1..20 |->
            LET half == h[((i - 1) \div 4) + 1][(((i - 1) % 4) \div 2) + 1]
            IN  IF i % 2 = 1 THEN half \div 256 ELSE half % 256]

\* base64.StdEncoding: the character of a 6-bit value
Base64Char(v) ==
    IF v < 26 THEN 65 + v
    ELSE IF v < 52 THEN 97 + (v - 26)
    ELSE IF v < 62 THEN 48 + (v - 52)
    ELSE IF v = 62 THEN 43
    ELSE 47

\* base64.StdEncoding.EncodeToString, with = padding
RECURSIVE Base64(_)
Base64(bs) ==
    IF bs = <<>> THEN <<>>
    ELSE IF Len(bs) = 1 THEN
        <<Base64Char(bs[1] \div 4), Base64Char((bs[1] % 4) * 16), 61, 61>>
    ELSE IF Len(bs) = 2 THEN
        <<Base64Char(bs[1] \div 4), Base64Char((bs[1] % 4) * 16 + bs[2] \div 16),
          Base64Char((bs[2] % 16) * 4), 61>>
    ELSE <<Base64Char(bs[1] \div 4), Base64Char((bs[1] % 4) * 16 + bs[2] \div 16),
           Base64Char((bs[2] % 16) * 4 + bs[3] \div 64), Base64Char(bs[3] % 64)>>
            \o Base64(Drop(bs, 3))

\* "258EAFA5-E914-47DA-95CA-C5AB0DC85B11"
MagicGUID ==
    <<50, 53, 56, 69, 65, 70, 65, 53, 45, 69, 57, 49, 52, 45, 52, 55, 68, 65, 45, 57, 53, 67, 65, 45, 67, 53, 65, 66, 48, 68, 67, 56, 53, 66, 49, 49>>

\* computeAcceptKey (lines 186-191)
computeAcceptKeyWithoutGUID(key) == Base64(Sha1(key))

computeAcceptKey(key) == Base64(Sha1(key \o MagicGUID))

\* "dGhlIHNhbXBsZSBub25jZQ==", the key the client of this repository sends
ClientKey ==
    <<100, 71, 104, 108, 73, 72, 78, 104, 98, 88, 66, 115, 90, 83, 66, 117, 98, 50, 53, 106, 90, 81, 61, 61>>

\* Header values of the requests that are followed step by step
StrUpgradeLower ==     \* "upgrade"
    <<117, 112, 103, 114, 97, 100, 101>>
StrUpgradeUpper ==     \* "UPGRADE"
    <<85, 80, 71, 82, 65, 68, 69>>
StrKeepAlive ==        \* "keep-alive"
    <<107, 101, 101, 112, 45, 97, 108, 105, 118, 101>>
StrKeepAliveUpgrade == \* "keep-alive, Upgrade"
    <<107, 101, 101, 112, 45, 97, 108, 105, 118, 101, 44, 32, 85, 112, 103, 114, 97, 100,
      101>>
StrWebSocketMixed ==   \* "WebSocket"
    <<87, 101, 98, 83, 111, 99, 107, 101, 116>>
StrWebsockets ==       \* "websockets"
    <<119, 101, 98, 115, 111, 99, 107, 101, 116, 115>>
StrH2c ==              \* "h2c"
    <<104, 50, 99>>
StrWebsocKelvin ==     \* "websoc", the Kelvin sign U+212A, "et"
    <<119, 101, 98, 115, 111, 99, 226, 132, 170, 101, 116>>
StrWebLongSocket ==    \* "web", the long s U+017F, "ocket"
    <<119, 101, 98, 197, 191, 111, 99, 107, 101, 116>>
Str8And13 ==           \* "8, 13"
    <<56, 44, 32, 49, 51>>
Str130 ==              \* "130"
    <<49, 51, 48>>
Str12 ==               \* "12"
    <<49, 50>>
Str1Space3 ==          \* "1 3"
    <<49, 32, 51>>

HsConnections ==
    {StrUpgrade, StrUpgradeLower, StrUpgradeUpper, StrKeepAlive, StrKeepAliveUpgrade, <<>>}

HsUpgrades ==
    {StrWebsocket, StrWebSocketMixed, StrWebsockets, StrH2c, StrWebsocKelvin,
     StrWebLongSocket, <<>>}

HsKeys == {ClientKey, <<120>>, <<>>}

HsVersions == {Str13, Str8And13, Str130, Str12, Str1Space3, <<>>}

HsRequests ==
    {[connection |-> c, upgrade |-> u, key |-> k, version |-> v] :
        c \in HsConnections, u \in HsUpgrades, k \in HsKeys, v \in HsVersions}

\* "HTTP/1.1 101 Switching Protocols\r\nUpgrade: websocket\r\n
\*  Connection: Upgrade\r\nSec-WebSocket-Accept: "
ResponseHead ==
    <<72, 84, 84, 80, 47, 49, 46, 49, 32, 49, 48, 49, 32, 83, 119, 105, 116, 99, 104,
      105, 110, 103, 32, 80, 114, 111, 116, 111, 99, 111, 108, 115, 13, 10, 85, 112, 103,
      114, 97, 100, 101, 58, 32, 119, 101, 98, 115, 111, 99, 107, 101, 116, 13, 10, 67,
      111, 110, 110, 101, 99, 116, 105, 111, 110, 58, 32, 85, 112, 103, 114, 97, 100,
      101, 13, 10, 83, 101, 99, 45, 87, 101, 98, 83, 111, 99, 107, 101, 116, 45, 65, 99,
      99, 101, 112, 116, 58, 32>>

\* resp := fmt.Sprintf(..., acceptKey)  (lines 117-120)
HandshakeResponse(acceptKey) == ResponseHead \o acceptKey \o <<13, 10, 13, 10>>

\* One thing the handler did on the connection
Event(ev, data) == [ev |-> ev, data |-> data]

HandshakeInit ==
    /\ HubInit
    /\ Machine
    /\ CodecIdle
    /\ CallIdle
    /\ ClientIdle
    /\ hsPc = "check"
    /\ request \in HsRequests
    /\ hsLog = <<>>

\* After http.Error the handler returns (line 104)
AfterRejectGoesOn == "hijack"

AfterReject == "done"

\* if !isWebSocketUpgrade(r) { http.Error(w, ..., 400); return }  (lines 102-105)
CheckUpgrade ==
    /\ hsPc = "check"
    /\ IF isWebSocketUpgrade(request)
           THEN /\ hsPc' = "hijack"
                /\ UNCHANGED hsLog
           ELSE /\ hsLog' = Append(hsLog, Event("400", <<>>))
                /\ hsPc' = AfterReject
    /\ UNCHANGED <<request, hubVars, codecVars, callVars, envVars, clientVars>>

\* rc.Hijack()  (lines 107-112)
Hijack ==
    /\ hsPc = "hijack"
    /\ \E ok \in BOOLEAN :
        IF ok THEN /\ hsLog' = Append(hsLog, Event("hijack", <<>>))
                   /\ hsPc' = "respond"
              ELSE /\ hsPc' = "done"
                   /\ UNCHANGED hsLog
    /\ UNCHANGED <<request, hubVars, codecVars, callVars, envVars, clientVars>>

\* The 101 response with the accept key (lines 114-125)
WriteResponse ==
    /\ hsPc = "respond"
    /\ \E ok \in BOOLEAN :
        IF ok THEN /\ hsLog' = Append(hsLog,
                                     Event("101", HandshakeResponse(computeAcceptKey(request.key))))
                   /\ hsPc' = "first"
              ELSE /\ hsLog' = Append(hsLog, Event("close", <<>>))
                   /\ hsPc' = "done"
    /\ UNCHANGED <<request, hubVars, codecVars, callVars, envVars, clientVars>>

\* First frames with names to trim, to default and to escape, and first frames
\* that are not Text frames
InEmptyName  == <<129, 0>>
InBlankName  == <<129, 2, 32, 9>>
InPaddedName == <<129, 6, 32, 66, 32, 111, 10, 13>>
InMarkupName == <<129, 3, 60, 98, 62>>
InQuotedName == <<129, 132, 1, 2, 3, 4,
                  XorByte(97, 1), XorByte(38, 2), XorByte(34, 3), XorByte(39, 4)>>
InBinaryName == <<130, 2, 104, 105>>
InPongName   == <<138, 1, 120>>
InContName   == <<128, 1, 121>>
InWideSpaceName == <<129, 3, 227, 128, 128>>    \* U+3000, the ideographic space
InNbspName   == <<129, 5, 194, 160, 120, 194, 133>>   \* U+00A0, "x", U+0085

IdentityInputs ==
    FirstInputs(1) \cup FirstInputs(2)
        \cup {InEmptyName, InBlankName, InPaddedName, InMarkupName, InQuotedName,
              InBinaryName, InPing, InPongName, InContName, InWideSpaceName,
              InNbspName}

\* The frame a "read" event of the history stands for
FrameOf(e) == readWebSocketFrame(e.data)

\* The read of the username frame (lines 127-138)
ReadFirst ==
    /\ hsPc = "first"
    /\ \E in \in IdentityInputs :
        LET f == readWebSocketFrame(in)
        IN  /\ hsLog' = Append(hsLog, Event("read", in))
            /\ hsPc' = IF f.err = "fatal" THEN "crashed"
                       ELSE IF f.err = "panic" THEN "done"
                       ELSE IF f.err # "none" \/ f.opcode = OpClose THEN "closing"
                       ELSE "register"
    /\ UNCHANGED <<request, hubVars, codecVars, callVars, envVars, clientVars>>

\* conn.Close() and return (lines 131-132, 136-137)
CloseEarly ==
    /\ hsPc = "closing"
    /\ hsLog' = Append(hsLog, Event("close", <<>>))
    /\ hsPc' = "done"
    /\ UNCHANGED <<request, hubVars, codecVars, callVars, envVars, clientVars>>

\* The session is created and registered (lines 139-145)
RegisterFirst ==
    /\ hsPc = "register"
    /\ hsLog' = Append(hsLog,
                       Event("register", DisplayName(FrameOf(hsLog[Len(hsLog)]).payload)))
    /\ hsPc' = "open"
    /\ UNCHANGED <<request, hubVars, codecVars, callVars, envVars, clientVars>>

HandshakeNext ==
    \/ CheckUpgrade
    \/ Hijack
    \/ WriteResponse
    \/ ReadFirst
    \/ CloseEarly
    \/ RegisterFirst

HandshakeSpec == HandshakeInit /\ [][HandshakeNext]_vars

\* --------------------------------------------------- claims on the handshake

\* The four conditions of the upgrade, on the header values of the model; the
\* Kelvin sign and the long s are the letters k and s in another case (Unicode
\* simple case folding)
Acceptable(r) ==
    /\ r.connection \in {StrUpgrade, StrUpgradeLower, StrUpgradeUpper}
    /\ r.upgrade \in {StrWebsocket, StrWebSocketMixed, StrWebsocKelvin, StrWebLongSocket}
    /\ Len(r.key) > 0
    /\ r.version \in {Str13, Str8And13, Str130}

\* C18: a request goes on to the upgrade exactly if Connection is "Upgrade" and
\* Upgrade is "websocket", whatever the case of the letters, the key is not
\* empty and the version contains "13"; every other request gets the 400
\* response and nothing else.
C18_AcceptedIffFourConditions ==
    hsPc # "check" =>
        /\ Acceptable(request) => \A i \in 1..Len(hsLog) : hsLog[i].ev # "400"
        /\ ~Acceptable(request) => (Len(hsLog) >= 1 /\ hsLog[1].ev = "400")
        /\ (hsPc \notin {"hijack", "done"}) => Acceptable(request)

\* A request in other letter cases and with a version list, upgraded
C18_Witness ==
    /\ request.connection = StrUpgradeUpper /\ request.upgrade = StrWebSocketMixed
    /\ request.version = Str8And13 /\ request.key = ClientKey
    /\ Len(hsLog) = 2 /\ hsLog[2].ev = "101"

\* C19: for a rejected request the 400 response is all the handler does: the
\* connection is not hijacked, no 101 is written, no frame is read and no
\* session is registered.
C19_RejectedBeforeUpgrade ==
    (hsLog # <<>> /\ hsLog[1].ev = "400") =>
        /\ hsLog = <<[ev |-> "400", data |-> <<>>]>>
        /\ hsPc = "done"

\* A request that only lacks Sec-WebSocket-Version, rejected
C19_Witness ==
    /\ request = [connection |-> StrUpgrade, upgrade |-> StrWebsocket,
                  key |-> ClientKey, version |-> <<>>]
    /\ hsPc = "done" /\ Len(hsLog) = 1 /\ hsLog[1].ev = "400"

\* base64(sha1(key + GUID)) for the keys of the model, computed outside it
ExpectedAccept(key) ==
    IF key = ClientKey THEN   \* "s3pPLMBiTxaQ9kYGzzhZRbK+xOo="
        <<115, 51, 112, 80, 76, 77, 66, 105, 84, 120, 97, 81, 57, 107, 89, 71, 122, 122,
          104, 90, 82, 98, 75, 43, 120, 79, 111, 61>>
    ELSE                      \* "JVxkmtKFjDcI/Pm/AGPEKSN6wT8=" for the key "x"
        <<74, 86, 120, 107, 109, 116, 75, 70, 106, 68, 99, 73, 47, 80, 109, 47, 65, 71,
          80, 69, 75, 83, 78, 54, 119, 84, 56, 61>>

\* C20: the 101 response carries base64(sha1(key + GUID)) of the request's key
\* and of nothing else in the request, it is the first thing written on the
\* hijacked connection, and the first frame is read only after it.
C20_AcceptKeyThenFirstFrame ==
    \A i \in 1..Len(hsLog) :
        /\ hsLog[i].ev = "101" =>
            /\ i = 2 /\ hsLog[1].ev = "hijack"
            /\ SubSeq(hsLog[i].data, 1, 12) = <<72, 84, 84, 80, 47, 49, 46, 49, 32, 49, 48, 49>>
            /\ Len(hsLog[i].data) = Len(ResponseHead) + 28 + 4
            /\ SubSeq(hsLog[i].data, Len(ResponseHead) + 1, Len(ResponseHead) + 28)
                  = ExpectedAccept(request.key)
        /\ hsLog[i].ev = "read" => (i = 3 /\ hsLog[2].ev = "101")

\* The client's key, in a request with other header values than the client's:
\* the response is written and the username frame read
C20_Witness ==
    /\ request.key = ClientKey /\ request.connection = StrUpgradeLower
    /\ request.version = Str130
    /\ Len(hsLog) = 4 /\ hsLog[2].ev = "101" /\ hsLog[3].ev = "read"
    /\ hsLog[4].ev = "register" /\ hsLog[4].data = <<65, 108, 105, 99, 101>>

\* ================================================== the hub on its own
\* hub.register and hub.unregister called in any order with any client, one
\* call at a time, on the hub that newHub returns.

\* the number of clients the calls are made with
MaxHandles == 4

Handles == 1..MaxHandles

HubCall(op, c) == [op |-> op, c |-> c, before |-> clients]

HubCallInit ==
    /\ HubInit
    /\ Machine
    /\ CodecIdle
    /\ HandshakeIdle
    /\ ClientIdle
    /\ hubCall = [op |-> "newHub", c |-> NoOwner, before |-> {}]

\* h.register(c)  (lines 33-38)
CallRegister(c) ==
    /\ MutexFree(hubMu)
    /\ clients' = AfterRegister(c)
    /\ hubCall' = HubCall("register", c)
    /\ UNCHANGED <<pc, resp, username, payload, hubMu, cMu, todo, cur, wire, connClosed,
                   peerGone, nsent, bcasts, unregCount, fatalIn>>
    /\ UNCHANGED <<codecVars, hsVars, clientVars, envVars>>

\* h.unregister(c)  (lines 40-45)
CallUnregister(c) ==
    /\ MutexFree(hubMu)
    /\ clients' = AfterUnregister(c)
    /\ hubCall' = HubCall("unregister", c)
    /\ UNCHANGED <<pc, resp, username, payload, hubMu, cMu, todo, cur, wire, connClosed,
                   peerGone, nsent, bcasts, unregCount, fatalIn>>
    /\ UNCHANGED <<codecVars, hsVars, clientVars, envVars>>

HubNext ==
    \/ \E c \in Handles : CallRegister(c)
    \/ \E c \in Handles : CallUnregister(c)

HubSpec == HubCallInit /\ [][HubNext]_vars

\* C21: after hub.unregister(c) the members are those from before the call
\* other than c, whether c was a member or not: a call for an absent client,
\* such as a second call for the same client, changes nothing.
C21_UnregisterIdempotent ==
    hubCall.op = "unregister" =>
        /\ \A d \in Handles : d \in clients <=> (d \in hubCall.before /\ d # hubCall.c)
        /\ clients \subseteq Handles
        /\ hubCall.c \notin hubCall.before => clients = hubCall.before

\* A client that is not a member is unregistered while two others are members
C21_Witness ==
    /\ hubCall.op = "unregister" /\ hubCall.c = 1
    /\ hubCall.before = {2, 3}
    /\ clients = {2, 3}

\* ============================================ one handler after the upgrade
\* The handler of one connection from the read of the username frame to its
\* end, with the history of what it did: "read" (the bytes that arrived for one
\* readWebSocketFrame), "register", "broadcast" (the call of hub.broadcast,
\* with the payload passed), "write" (the bytes it wrote itself),
\* "unregister", "close".

\* the number of frames the handler reads in its loop
MaxFrames == 2

InBinary == <<130, 1, 7>>
InPong   == <<138, 0>>

\* What arrives for one read of the loop
LoopInputs == Inputs \cup {InBinary, InPong}

LoopReads == Cardinality({i \in 1..Len(hsLog) : hsLog[i].ev = "read"}) - 1

SessionInit ==
    /\ HubInit
    /\ Machine
    /\ CodecIdle
    /\ CallIdle
    /\ ClientIdle
    /\ hsPc = "first"
    /\ request = GoodRequest
    /\ hsLog = <<>>

\* if err != nil { return }  (lines 154-157): the deferred calls come next
AfterReadErrorAcks == "ack"

AfterReadError == "unregister"

\* if opcode == 0x8 { writeWebSocketFrame(conn, 0x8, []byte{}); return }  (158-162)
AfterCloseFrameNoAck == "unregister"

AfterCloseFrame == "ack"

\* if opcode == 0x1 { globalHub.broadcast(c, payload) }  (lines 163-166)
IsBroadcastOpcodeNotClose(opcode) == TRUE

IsBroadcastOpcode(opcode) == opcode = OpText

\* One readWebSocketFrame of the loop and the branch taken (lines 152-166).  A
\* panic of readWebSocketFrame unwinds through the deferred calls as an error
\* return does; a fatal error of the runtime ends the process, and the handler
\* with it, where it stands.
ReadNext ==
    /\ hsPc = "open"
    /\ LoopReads < MaxFrames
    /\ \E in \in LoopInputs :
        LET f == readWebSocketFrame(in)
        IN  /\ hsLog' = Append(hsLog, Event("read", in))
            /\ hsPc' = IF f.err = "fatal" THEN "crashed"
                       ELSE IF f.err # "none" THEN AfterReadError
                       ELSE IF f.opcode = OpClose THEN AfterCloseFrame
                       ELSE IF IsBroadcastOpcode(f.opcode) THEN "broadcast"
                       ELSE "open"
    /\ UNCHANGED <<request, hubVars, codecVars, callVars, envVars, clientVars>>

\* globalHub.broadcast(c, payload) called and returned (line 165)
BroadcastCall ==
    /\ hsPc = "broadcast"
    /\ hsLog' = Append(hsLog, Event("broadcast", FrameOf(hsLog[Len(hsLog)]).payload))
    /\ hsPc' = "open"
    /\ UNCHANGED <<request, hubVars, codecVars, callVars, envVars, clientVars>>

\* writeWebSocketFrame(conn, 0x8, []byte{}) (line 160): the bytes reach the
\* stream unless the Write of the header fails; the result is not looked at
CloseAck ==
    /\ hsPc = "ack"
    /\ \E ok \in BOOLEAN :
        hsLog' = Append(hsLog, IF ok THEN Event("write", FrameBytes(OpClose, <<>>))
                                    ELSE Event("write failed", <<>>))
    /\ hsPc' = "unregister"
    /\ UNCHANGED <<request, hubVars, codecVars, callVars, envVars, clientVars>>

\* The deferred globalHub.unregister(c)  (line 147)
UnregisterDeferred ==
    /\ hsPc = "unregister"
    /\ hsLog' = Append(hsLog, Event("unregister", <<>>))
    /\ hsPc' = "connclose"
    /\ UNCHANGED <<request, hubVars, codecVars, callVars, envVars, clientVars>>

\* The deferred conn.Close()  (line 148)
CloseDeferred ==
    /\ hsPc = "connclose"
    /\ hsLog' = Append(hsLog, Event("close", <<>>))
    /\ hsPc' = "done"
    /\ UNCHANGED <<request, hubVars, codecVars, callVars, envVars, clientVars>>

SessionNext ==
    \/ ReadFirst
    \/ CloseEarly
    \/ RegisterFirst
    \/ ReadNext
    \/ BroadcastCall
    \/ CloseAck
    \/ UnregisterDeferred
    \/ CloseDeferred

SessionSpec == SessionInit /\ [][SessionNext]_vars

\* -------------------------------------------------- claims on one handler
IsRead(i) == hsLog[i].ev = "read"

\* The username frame is the first read of the history
FirstRead ==
    CHOOSE i \in 1..Len(hsLog) : IsRead(i) /\ \A j \in 1..(i - 1) : ~IsRead(j)

\* A read of the loop: the session was registered before it
InLoop(i) == IsRead(i) /\ \E j \in 1..(i - 1) : hsLog[j].ev = "register"

\* What the handler did after event i
After(i) == SubSeq(hsLog, i + 1, Len(hsLog))

\* The session is a member of the hub
RegisteredNow ==
    /\ \E j \in 1..Len(hsLog) : hsLog[j].ev = "register"
    /\ \A j \in 1..Len(hsLog) : hsLog[j].ev # "unregister"

\* What the handler does for a frame g right after reading it, as the position
\* it is in or as the next event of its history
Handled(g, rest, at) ==
    IF rest = <<>> THEN
        at = (IF g.err = "fatal" THEN "crashed"
              ELSE IF g.err # "none" THEN "unregister"
              ELSE IF g.opcode = OpClose THEN "ack"
              ELSE IF g.opcode = OpText THEN "broadcast"
              ELSE "open")
    ELSE IF g.err = "fatal" THEN FALSE
    ELSE IF g.err # "none" THEN rest[1] = Event("unregister", <<>>)
    ELSE IF g.opcode = OpClose THEN rest[1].ev \in {"write", "write failed"}
    ELSE IF g.opcode = OpText THEN rest[1] = Event("broadcast", g.payload)
    ELSE rest[1].ev = "read"

\* C22: a well-formed frame of the loop with an opcode other than Text and
\* Close leaves the session Open and registered; the handler writes nothing and
\* broadcasts nothing for it, the next thing it does is the next read, and that
\* frame is handled as any frame is.
C22_OtherOpcodesIgnored ==
    \A i \in 1..Len(hsLog) :
        (InLoop(i) /\ FrameOf(hsLog[i]).err = "none"
                   /\ FrameOf(hsLog[i]).opcode \notin {OpText, OpClose}) =>
            IF i = Len(hsLog) THEN hsPc = "open" /\ RegisteredNow
            ELSE /\ hsLog[i + 1].ev = "read"
                 /\ Handled(FrameOf(hsLog[i + 1]), After(i + 1), hsPc)

\* A Ping was read in the loop, and the Text frame after it was broadcast
C22_Witness ==
    /\ Len(hsLog) = 5
    /\ hsLog[2].ev = "register"
    /\ hsLog[3] = Event("read", InPing)
    /\ hsLog[4] = Event("read", InText)
    /\ hsLog[5] = Event("broadcast", <<104, 105>>)
    /\ hsPc = "open"

\* The display names of the first frames of the model, written out
ExpectedName(in) ==
    CASE in = InAlice      -> <<65, 108, 105, 99, 101>>
      [] in = InBob        -> <<66, 111, 98>>
      [] in = InEmptyName  -> StrAnonymous
      [] in = InBlankName  -> StrAnonymous
      [] in = InPaddedName -> <<66, 32, 111>>
      [] in = InMarkupName -> <<38, 108, 116, 59, 98, 38, 103, 116, 59>>
      [] in = InQuotedName -> <<97, 38, 97, 109, 112, 59, 38, 35, 51, 52, 59,
                                38, 35, 51, 57, 59>>
      [] in = InBinaryName -> <<104, 105>>
      [] in = InPing       -> StrAnonymous
      [] in = InPongName   -> <<120>>
      [] in = InContName   -> <<121>>
      [] in = InWideSpaceName -> StrAnonymous
      [] in = InNbspName   -> <<120>>
      [] OTHER             -> <<>>

\* C23: the payload of the first frame read, trimmed, replaced by "Anonymous"
\* when empty and HTML-escaped, is the name the session is registered with; when
\* the first frame is a Close frame the handler closes the connection and does
\* nothing else: no registration, no broadcast.
C23_IdentityFromFirstFrame ==
    (\E i \in 1..Len(hsLog) : IsRead(i)) =>
        LET i    == FirstRead
            f    == FrameOf(hsLog[i])
            rest == After(i)
        IN  /\ (f.err = "none" /\ f.opcode # OpClose) =>
                  IF rest = <<>> THEN hsPc = "register"
                  ELSE /\ rest[1] = Event("register", ExpectedName(hsLog[i].data))
                       /\ rest[1].data # <<>>
                       /\ \A k \in 1..Len(rest[1].data) :
                              rest[1].data[k] \notin {60, 62, 34, 39}
                       /\ LeadingSpace(rest[1].data) = 0
                       /\ TrailingSpace(rest[1].data) = 0
            /\ (f.err = "none" /\ f.opcode = OpClose) =>
                  IF rest = <<>> THEN hsPc = "closing"
                  ELSE rest = <<Event("close", <<>>)>> /\ hsPc = "done"
            /\ \A k \in 1..Len(hsLog) : hsLog[k].ev = "register" => k = i + 1

\* The name  a&"'  arrived masked; the session is registered with it escaped
C23_Witness ==
    /\ Len(hsLog) >= 2
    /\ hsLog[1] = Event("read", InQuotedName)
    /\ hsLog[2].ev = "register"
    /\ hsLog[2].data = <<97, 38, 97, 109, 112, 59, 38, 35, 51, 52, 59, 38, 35, 51, 57, 59>>
    /\ hsPc = "open"

\* C24: a session is registered only with the payload of a Text frame as its
\* name: a first frame with another opcode is not taken as the name.
C24_NameFromTextFrameOnly ==
    \A k \in 2..Len(hsLog) :
        hsLog[k].ev = "register" => FrameOf(hsLog[k - 1]).opcode = OpText

\* C25: for a Close frame read in the loop the handler writes one Close frame
\* with an empty payload (88 00) if the stream takes it, then unregisters the
\* session, then closes the connection; it reads and broadcasts nothing more.
C25_CloseAcknowledgedThenClosed ==
    \A i \in 1..Len(hsLog) :
        (InLoop(i) /\ FrameOf(hsLog[i]).err = "none"
                   /\ FrameOf(hsLog[i]).opcode = OpClose) =>
            LET rest == After(i)
            IN  /\ Len(rest) <= 3
                /\ hsPc = <<"ack", "unregister", "connclose", "done">>[Len(rest) + 1]
                /\ Len(rest) >= 1 =>
                       rest[1] \in {Event("write", <<136, 0>>), Event("write failed", <<>>)}
                /\ Len(rest) >= 2 => rest[2] = Event("unregister", <<>>)
                /\ Len(rest) >= 3 => rest[3] = Event("close", <<>>)

\* After a broadcast of its own the session read a Close frame, acknowledged
\* it and ended
C25_Witness ==
    /\ Len(hsLog) = 8
    /\ hsLog[4].ev = "broadcast"
    /\ hsLog[5] = Event("read", InClose)
    /\ hsLog[6] = Event("write", <<136, 0>>)
    /\ hsLog[7].ev = "unregister"
    /\ hsLog[8].ev = "close"
    /\ hsPc = "done"

\* C26: when a read of the loop fails the handler unregisters the session and
\* closes the connection, and writes nothing: no Close frame goes out.
C26_DecodeErrorClosesWithoutAck ==
    \A i \in 1..Len(hsLog) :
        (InLoop(i) /\ FrameOf(hsLog[i]).err # "none") =>
            LET rest == After(i)
            IN  /\ Len(rest) <= 2
                /\ hsPc = <<"unregister", "connclose", "done">>[Len(rest) + 1]
                /\ Len(rest) >= 1 => rest[1] = Event("unregister", <<>>)
                /\ Len(rest) >= 2 => rest[2] = Event("close", <<>>)
                /\ \A k \in 1..Len(hsLog) : hsLog[k].ev \notin {"write", "write failed"}

\* A fragment arrived in the loop after a Ping; the session ended without a write
C26_Witness ==
    /\ Len(hsLog) = 6
    /\ hsLog[3] = Event("read", InPing)
    /\ hsLog[4] = Event("read", InFrag)
    /\ hsLog[5].ev = "unregister"
    /\ hsLog[6].ev = "close"
    /\ hsPc = "done"

\* An 8-byte extended length with the top bit set
MalformedLength(bs) == Len(bs) >= 10 /\ bs[2] % 128 = Len64Marker /\ bs[3] >= 128

\* C27: a frame with an 8-byte length whose top bit is set ends the session
\* with its connection closed and nothing written or broadcast for the frame.
C27_MalformedLengthClosesSession ==
    \A i \in 1..Len(hsLog) :
        (IsRead(i) /\ MalformedLength(hsLog[i].data) /\ hsPc = "done") =>
            /\ hsLog[Len(hsLog)] = Event("close", <<>>)
            /\ \A k \in (i + 1)..Len(hsLog) :
                   hsLog[k].ev \notin {"write", "write failed", "broadcast", "read"}

\* ======================================= the client (src/unnamed/part_001)
\* The client has its own copy of the two frame functions, on a net.Conn.

clientUnmaskFromSecondKeyByte(data, key) ==
    [i \in 1..Len(data) |-> XorByte(data[i], key[(i % 4) + 1])]

\* payload[i] ^= maskKey[i%4]  (part_001 lines 206-210)
clientUnmask(data, key) ==
    [i \in 1..Len(data) |-> XorByte(data[i], key[((i - 1) % 4) + 1])]

\* The mask key, make([]byte, payloadLen) and the read of the payload (194-212)
clientReadPayload(opcode, mask, payloadLen, bs) ==
    LET keyLen == IF mask THEN 4 ELSE 0
    IN  IF Len(bs) < keyLen THEN FrameErr("io")
        ELSE IF payloadLen < 0 \/ payloadLen = OverAlloc THEN FrameErr("panic")
        ELSE IF payloadLen = NoMapLen \/ (payloadLen = HugeLen /\ ~canMapHuge)
            THEN FrameErr("fatal")
        ELSE IF Len(bs) - keyLen < payloadLen THEN FrameErr("io")
        ELSE LET raw == SubSeq(bs, keyLen + 1, keyLen + payloadLen)
             IN  [err |-> "none", opcode |-> opcode,
                  payload |-> IF mask THEN clientUnmask(raw, Take(bs, 4)) ELSE raw]

\* readWebSocketFrame of the client (part_001 lines 161-213)
clientReadWebSocketFrame(bs) ==
    IF Len(bs) < 2 THEN FrameErr("io")
    ELSE LET fin    == bs[1] >= FinBit
             opcode == bs[1] % 16
             mask   == bs[2] >= MaskBit
             len7   == bs[2] % 128
             rest   == Drop(bs, 2)
         IN  IF ~fin THEN FrameErr("frag")
             ELSE IF len7 = Len16Marker THEN
                 IF Len(rest) < 2 THEN FrameErr("io")
                 ELSE clientReadPayload(opcode, mask, BigEndian(Take(rest, 2)), Drop(rest, 2))
             ELSE IF len7 = Len64Marker THEN
                 IF Len(rest) < 8 THEN FrameErr("io")
                 ELSE clientReadPayload(opcode, mask, Len64(Take(rest, 8)), Drop(rest, 8))
             ELSE clientReadPayload(opcode, mask, len7, rest)

\* The header of writeWebSocketFrame of the client (part_001 lines 216-230)
clientFrameHeader(opcode, n) ==
    IF n <= MaxLen7 THEN <<OrByte(FinBit, opcode), ToByte(n)>>
    ELSE IF n < Limit16 THEN
        <<OrByte(FinBit, opcode), Len16Marker, ToByte(Shr(n, 8)), ToByte(n % 256)>>
    ELSE <<OrByte(FinBit, opcode), Len64Marker,
           ToByte(Shr(n, 56)), ToByte(Shr(n, 48)), ToByte(Shr(n, 40)), ToByte(Shr(n, 32)),
           ToByte(Shr(n, 24)), ToByte(Shr(n, 16)), ToByte(Shr(n, 8)), ToByte(n)>>

\* The bytes of one frame as the client writes them (part_001 lines 232-238)
clientFrameBytesPayloadFirst(opcode, data) == data \o clientFrameHeader(opcode, Len(data))

clientFrameBytes(opcode, data) == clientFrameHeader(opcode, Len(data)) \o data

\* C30: the client's decoder and the server's decoder give the same result on
\* every stream, and the client's encoder and the server's encoder give the
\* same bytes for every opcode and payload.
C30_ClientAndServerSameCodec ==
    /\ clientReadWebSocketFrame(stream) = readWebSocketFrame(stream)
    /\ decoded.err # "pending" => decoded = clientReadWebSocketFrame(stream)
    /\ clientFrameBytes(frameOpcode, framePayload) = FrameBytes(frameOpcode, framePayload)
    /\ codecPc = "written" => stream = clientFrameBytes(frameOpcode, framePayload)

\* A masked Close frame with a payload, written and read
C30_Witness ==
    /\ codecPc = "masked" /\ frameOpcode = OpClose
    /\ framePayload = <<104, 255>> /\ maskKey = <<1, 2, 3, 4>>
    /\ decoded.err = "none"

\* ------------------------------------------------------ the client program
\* main of the client: dialWebSocket, the username frame, the receive loop in
\* a goroutine of its own and the input loop.  clLog is the history of the main
\* goroutine: "dial", "request", "response" (the bytes read as the response),
\* "write" / "write failed" (the bytes of one writeWebSocketFrame that reached
\* the stream), "line" (a line of the operator), "eof", "close" (conn.Close).

\* the number of lines the input loop reads
MaxLines == 2
\* the number of frames the receive loop reads
MaxRecv == 2

Str101 == <<49, 48, 49>>
StrQuit == <<113, 117, 105, 116>>

\* U+0130 is the one rune beyond ASCII that unicode.ToLower takes to i, the
\* Kelvin sign U+212A the one it takes to k; it takes no other to ASCII
RuneDottedI == <<196, 176>>

RECURSIVE LowerEquals(_, _)
\* strings.ToLower(s) == t for a lower-case ASCII t, as "quit" at line 70:
\* rune by rune, an ASCII rune of s lowered, U+0130 as i, U+212A as k; any
\* other rune of s, the U+FFFD of an invalid byte included, stays beyond ASCII
LowerEquals(s, t) ==
    IF s = <<>> \/ t = <<>> THEN s = t
    ELSE IF s[1] < 128 THEN ToLowerByte(s[1]) = t[1] /\ LowerEquals(Tail(s), Tail(t))
    ELSE IF StartsWith(s, RuneDottedI) THEN
        t[1] = 105 /\ LowerEquals(SubSeq(s, 3, Len(s)), Tail(t))
    ELSE IF StartsWith(s, RuneKelvin) THEN
        t[1] = 107 /\ LowerEquals(SubSeq(s, 4, Len(s)), Tail(t))
    ELSE FALSE

\* What the server side may answer the upgrade request with, followed by the
\* end of the stream where the answer is cut short
RespServer == HandshakeResponse(computeAcceptKey(ClientKey))

Resp400 ==   \* "HTTP/1.1 400 Bad Request\r\n\r\n"
    <<72, 84, 84, 80, 47, 49, 46, 49, 32, 52, 48, 48, 32, 66, 97, 100, 32, 82, 101,
      113, 117, 101, 115, 116, 13, 10, 13, 10>>

RespCutStatus ==   \* "HTTP/1.1 101", then the stream ends
    <<72, 84, 84, 80, 47, 49, 46, 49, 32, 49, 48, 49>>

RespCutHeaders ==   \* "HTTP/1.1 101 S\r\nUpgrade: websocket\r\n", then the stream ends
    <<72, 84, 84, 80, 47, 49, 46, 49, 32, 49, 48, 49, 32, 83, 13, 10, 85, 112, 103,
      114, 97, 100, 101, 58, 32, 119, 101, 98, 115, 111, 99, 107, 101, 116, 13, 10>>

Resp200 ==   \* "HTTP/1.1 200 OK\r\nX: 101\r\n\r\n"
    <<72, 84, 84, 80, 47, 49, 46, 49, 32, 50, 48, 48, 32, 79, 75, 13, 10, 88, 58, 32,
      49, 48, 49, 13, 10, 13, 10>>

RespBare ==   \* "101\n\n"
    <<49, 48, 49, 10, 10>>

Resp400Reason ==   \* "HTTP/1.1 400 E101\r\n\r\n"
    <<72, 84, 84, 80, 47, 49, 46, 49, 32, 52, 48, 48, 32, 69, 49, 48, 49, 13, 10, 13, 10>>

RespBlankish ==   \* "HTTP/1.1 101 S\r\n \t\r\n"
    <<72, 84, 84, 80, 47, 49, 46, 49, 32, 49, 48, 49, 32, 83, 13, 10, 32, 9, 13, 10>>

RespNbspLine ==   \* "HTTP/1.1 101 S\r\n", U+00A0, "\r\n"
    <<72, 84, 84, 80, 47, 49, 46, 49, 32, 49, 48, 49, 32, 83, 13, 10, 194, 160, 13, 10>>

Responses ==
    {RespServer, Resp400, RespCutStatus, RespCutHeaders, Resp200, RespBare,
     Resp400Reason, RespBlankish, RespNbspLine, <<>>}

\* resp.ReadString(10): the bytes up to the first line feed and the line feed,
\* an error when the stream ends before one
RECURSIVE IndexOfLF(_, _)
IndexOfLF(bs, i) ==
    IF i > Len(bs) THEN 0 ELSE IF bs[i] = 10 THEN i ELSE IndexOfLF(bs, i + 1)

ReadString(bs) ==
    LET n == IndexOfLF(bs, 1)
    IN  IF n = 0 THEN [err |-> TRUE, line |-> bs, rest |-> <<>>]
        ELSE [err |-> FALSE, line |-> Take(bs, n), rest |-> Drop(bs, n)]

\* if !strings.Contains(statusLine, "101")  (line 133)
StatusOkAlways(statusLine) == TRUE

StatusOk(statusLine) == Contains(statusLine, Str101)

\* The header lines are read up to a line that is blank once trimmed (139-149)
RECURSIVE HeadersEnd(_)
HeadersEnd(bs) ==
    LET r == ReadString(bs)
    IN  IF r.err THEN FALSE
        ELSE IF TrimSpace(r.line) = <<>> THEN TRUE
        ELSE HeadersEnd(r.rest)

\* dialWebSocket returns the conn for this response (lines 127-153)
ResponseAccepted(response) ==
    LET st == ReadString(response)
    IN  ~st.err /\ StatusOk(st.line) /\ HeadersEnd(st.rest)

\* The lines of the operator and the name given at the prompt
StrQuitDotted ==   \* "QU", the dotted capital I U+0130, "T"
    <<81, 85, 196, 176, 84>>

Lines ==
    {<<104, 105>>, <<>>, StrQuit, <<81, 85, 73, 84>>, <<81, 117, 105, 116>>,
     <<32, 113, 117, 105, 116>>, <<113, 117, 105, 116, 115>>, StrQuitDotted}

Usernames == {<<65, 108, 105, 99, 101>>, StrAnonymous}

\* What arrives for one read of the receive loop: a Text frame, a Ping, the
\* server's Close frame, the end of the stream, a frame cut short, and the
\* headers that declare a negative length, 2^47 bytes and 2^32 bytes
RecvInputs ==
    {<<129, 2, 104, 105>>, <<137, 0>>, <<136, 0>>, <<>>, <<129, 5, 104>>,
     InNegLen, InNoMap, InHuge}

\* One writeWebSocketFrame of the client in the history: with n = 2 both
\* Writes succeeded, with n = 1 the Write of the payload failed, with n = 0 the
\* Write of the header; "write begun" while the Write of the header has
\* returned and the Write of the payload has not
WriteEvent(opcode, data, n) ==
    IF n = 2 THEN Event("write", clientFrameBytes(opcode, data))
    ELSE IF n = 1 THEN Event("write failed", clientFrameHeader(opcode, Len(data)))
    ELSE Event("write failed", <<>>)

WriteBegun(opcode, data) == Event("write begun", clientFrameHeader(opcode, Len(data)))

ClientInit ==
    /\ HubInit
    /\ Machine
    /\ CodecIdle
    /\ HandshakeIdle
    /\ CallIdle
    /\ clPc = "dial"
    /\ clConn = "none"
    /\ clLog = <<>>
    /\ clRecv = <<>>

\* net.Dial (lines 106-109); main returns when dialWebSocket fails (33-36)
Dial ==
    /\ clPc = "dial"
    /\ \E ok \in BOOLEAN :
        IF ok THEN /\ clConn' = "open"
                   /\ clLog' = Append(clLog, Event("dial", <<>>))
                   /\ clPc' = "request"
              ELSE /\ clLog' = Append(clLog, Event("dial failed", <<>>))
                   /\ clPc' = "exited"
                   /\ UNCHANGED clConn
    /\ UNCHANGED <<clRecv, hubVars, codecVars, hsVars, callVars, envVars>>

\* The upgrade request is written (lines 113-124)
SendRequest ==
    /\ clPc = "request"
    /\ \E ok \in BOOLEAN :
        IF ok THEN /\ clLog' = Append(clLog, Event("request", <<>>))
                   /\ clPc' = "response"
                   /\ UNCHANGED clConn
              ELSE /\ clLog' = clLog \o <<Event("request failed", <<>>), Event("close", <<>>)>>
                   /\ clConn' = "closed"
                   /\ clPc' = "exited"
    /\ UNCHANGED <<clRecv, hubVars, codecVars, hsVars, callVars, envVars>>

\* The response is read and checked (lines 127-153)
ReadResponse ==
    /\ clPc = "response"
    /\ \E response \in Responses :
        IF ResponseAccepted(response)
            THEN /\ clLog' = Append(clLog, Event("response", response))
                 /\ clPc' = "identity"
                 /\ UNCHANGED clConn
            ELSE /\ clLog' = clLog \o <<Event("response", response), Event("close", <<>>)>>
                 /\ clConn' = "closed"
                 /\ clPc' = "exited"
    /\ UNCHANGED <<clRecv, hubVars, codecVars, hsVars, callVars, envVars>>

\* The username frame (lines 37-43); from here on conn.Close is deferred.  The
\* receive goroutine is not started yet: nothing runs between the two Writes
\* and the deferred Close.
SendIdentity ==
    /\ clPc = "identity"
    /\ \E name \in Usernames, n \in 0..2 :
        IF n = 2 THEN /\ clLog' = Append(clLog, WriteEvent(OpText, name, n))
                      /\ clPc' = "input"
                      /\ UNCHANGED clConn
                 ELSE /\ clLog' = clLog \o <<WriteEvent(OpText, name, n), Event("close", <<>>)>>
                      /\ clConn' = "closed"
                      /\ clPc' = "exited"
    /\ UNCHANGED <<clRecv, hubVars, codecVars, hsVars, callVars, envVars>>

LinesRead == Cardinality({i \in 1..Len(clLog) : clLog[i].ev = "line"})

\* scanner.Scan() returns a line (lines 64, 69)
ScanLine ==
    /\ clPc = "input"
    /\ LinesRead < MaxLines
    /\ \E line \in Lines : clLog' = Append(clLog, Event("line", line))
    /\ clPc' = "send"
    /\ UNCHANGED <<clConn, clRecv, hubVars, codecVars, hsVars, callVars, envVars>>

\* scanner.Scan() returns false: main returns (lines 64-68), the deferred
\* conn.Close comes next
ScanEnds ==
    /\ clPc = "input"
    /\ clLog' = Append(clLog, Event("eof", <<>>))
    /\ clPc' = "closing"
    /\ UNCHANGED <<clConn, clRecv, hubVars, codecVars, hsVars, callVars, envVars>>

\* if strings.ToLower(msg) == "quit"  (line 70)
IsQuitExact(msg) == msg = StrQuit

IsQuit(msg) == LowerEquals(msg, StrQuit)

\* The frame of a line: a Close frame for "quit", a Text frame otherwise (70-74)
LineOpcode(msg) == IF IsQuit(msg) THEN OpClose ELSE OpText

LineData(msg) == IF IsQuit(msg) THEN <<>> ELSE msg

\* The line is sent (lines 70-74): conn.Write(header) of writeWebSocketFrame
\* (line 232); when it fails, main returns
SendLine ==
    /\ clPc = "send"
    /\ \E ok \in BOOLEAN :
        LET msg == clLog[Len(clLog)].data
        IN  IF ok THEN
                /\ clLog' = Append(clLog, WriteBegun(LineOpcode(msg), LineData(msg)))
                /\ clPc' = "send_pay"
            ELSE
                /\ clLog' = Append(clLog, WriteEvent(LineOpcode(msg), LineData(msg), 0))
                /\ clPc' = "closing"
    /\ UNCHANGED <<clConn, clRecv, hubVars, codecVars, hsVars, callVars, envVars>>

\* conn.Write(payload) of writeWebSocketFrame (line 235) and what main does
\* with the result: it returns after the Close frame whatever the result (71-72)
\* and after a Text frame that failed (74-77), and scans the next line otherwise
SendLinePayload ==
    /\ clPc = "send_pay"
    /\ \E ok \in BOOLEAN :
        LET msg == clLog[Len(clLog) - 1].data
            ev  == WriteEvent(LineOpcode(msg), LineData(msg), IF ok THEN 2 ELSE 1)
        IN  /\ clLog' = [clLog EXCEPT ![Len(clLog)] = ev]
            /\ clPc' = IF ok /\ ~IsQuit(msg) THEN "input" ELSE "closing"
    /\ UNCHANGED <<clConn, clRecv, hubVars, codecVars, hsVars, callVars, envVars>>

\* main is returning: the deferred conn.Close() runs (line 37).  The process
\* still runs, and the receive goroutine with it.
ClientClose ==
    /\ clPc = "closing"
    /\ clLog' = Append(clLog, Event("close", <<>>))
    /\ clConn' = "closed"
    /\ clPc' = "returning"
    /\ UNCHANGED <<clRecv, hubVars, codecVars, hsVars, callVars, envVars>>

\* main has returned and the runtime ends the process with status 0, unless
\* the receive goroutine ended it first
MainReturns ==
    /\ clPc = "returning"
    /\ clPc' = "exited"
    /\ UNCHANGED <<clConn, clLog, clRecv, hubVars, codecVars, hsVars, callVars, envVars>>

\* One turn of the receive loop (lines 46-59), which runs beside main from the
\* username frame on: os.Exit(0) on an error and on a Close frame, which ends
\* the process where main stands, without the deferred conn.Close; the payload
\* is printed otherwise.  A panic of readWebSocketFrame in this goroutine and
\* a fatal error of the runtime end the process with status 2.  After main's
\* conn.Close a read fails, and what the goroutine had read before it is
\* still worked on: a panic under way when main returns ends the process.
Receive ==
    /\ clPc \in {"input", "send", "send_pay", "closing", "returning"}
    /\ Len(clRecv) < MaxRecv
    /\ \E in \in RecvInputs :
        LET f == clientReadWebSocketFrame(in)
        IN  /\ clRecv' = Append(clRecv, in)
            /\ clPc' = IF f.err \in {"fatal", "panic"} THEN "crashed"
                       ELSE IF f.err # "none" \/ f.opcode = OpClose THEN "exited"
                       ELSE clPc
    /\ UNCHANGED <<clConn, clLog, hubVars, codecVars, hsVars, callVars, envVars>>

ClientNext ==
    \/ Dial
    \/ SendRequest
    \/ ReadResponse
    \/ SendIdentity
    \/ ScanLine
    \/ ScanEnds
    \/ SendLine
    \/ SendLinePayload
    \/ ClientClose
    \/ MainReturns
    \/ Receive

ClientSpec == ClientInit /\ [][ClientNext]_vars

\* ------------------------------------------------- claims on the client
\* The lines that are "quit" whatever the case, among the lines of the model
QuitLines == {StrQuit, <<81, 85, 73, 84>>, <<81, 117, 105, 116>>, StrQuitDotted}

\* The frame the input loop owes for a line (lines are shorter than 126 bytes)
ExpectedFrame(line) ==
    IF line \in QuitLines THEN <<136, 0>> ELSE <<129, Len(line)>> \o line

\* The reads of the receive loop that end the process: the Close frame, the
\* end of the stream, the frame cut short
ExitInputs == {<<136, 0>>, <<>>, <<129, 5, 104>>}

\* The process is over
ClientOver == clPc \in {"exited", "crashed"}

IsWrite(e) == e.ev \in {"write", "write failed", "write begun"}

\* The input loop, line by line: the line's frame is the next thing done, whole
\* unless a Write fails or the process ends between the two Writes; after the
\* frame of a "quit" line and after a failed Write nothing more is sent
LineThenFrame ==
    \A i \in 1..Len(clLog) :
        clLog[i].ev = "line" =>
            IF i = Len(clLog) THEN clPc = "send" \/ ClientOver
            ELSE LET w == clLog[i + 1]
                     quit == clLog[i].data \in QuitLines
                 IN  /\ IsWrite(w)
                     /\ w.ev = "write" => w.data = ExpectedFrame(clLog[i].data)
                     /\ w.ev # "write" =>
                            /\ Len(w.data) <= 2
                            /\ w.data = Take(ExpectedFrame(clLog[i].data), Len(w.data))
                     /\ w.ev = "write begun" =>
                            /\ Len(clLog) = i + 1
                            /\ clPc = "send_pay" \/ ClientOver
                     /\ (quit \/ w.ev = "write failed") =>
                            IF Len(clLog) = i + 1
                                THEN clPc \in {"send_pay", "closing"} \/ ClientOver
                                ELSE /\ Len(clLog) = i + 2
                                     /\ clLog[i + 2] = Event("close", <<>>)
                                     /\ clPc = "returning" \/ ClientOver
                     /\ (~quit /\ w.ev = "write" /\ i + 1 < Len(clLog)) =>
                            clLog[i + 2].ev \in {"line", "eof"}

\* The receive loop: a read that fails or gives a Close frame is its last
ReceiveExits ==
    \A k \in 1..Len(clRecv) :
        /\ clRecv[k] \in ExitInputs => (k = Len(clRecv) /\ clPc = "exited")
        /\ k < Len(clRecv) => clRecv[k] \notin ExitInputs

\* C28: the input loop sends one Text frame per line, in the order of the
\* lines; for a line that is "quit" in any case it sends one Close frame
\* instead and nothing after it; the process is over as soon as a read of the
\* receive loop fails or gives a Close frame, and a process that is over
\* sends and reads nothing.
C28_ClientLoops ==
    /\ [](LineThenFrame /\ ReceiveExits)
    /\ [][ClientOver => UNCHANGED <<clLog, clRecv, clPc>>]_vars

\* "hi" went out as a Text frame and "QUIT" as a Close frame, in that order
C28_Witness ==
    /\ Len(clLog) = 9
    /\ clLog[5] = Event("line", <<104, 105>>)
    /\ clLog[6] = Event("write", <<129, 2, 104, 105>>)
    /\ clLog[7] = Event("line", <<81, 85, 73, 84>>)
    /\ clLog[8] = Event("write", <<136, 0>>)
    /\ clLog[9].ev = "close"
    /\ clPc = "exited"

\* The responses of the model with "101" in the first line and a blank line
\* after it
GoodResponses == {RespServer, RespBare, Resp400Reason, RespBlankish, RespNbspLine}

\* C29: the client writes a frame only after a response whose status line
\* contains "101" and whose headers end with a blank line; after any other
\* response, and after a failed dial or a failed write of the request, it
\* closes the connection it has and ends without having written a frame.
C29_DialValidatesHandshake ==
    /\ \A i \in 1..Len(clLog) :
           IsWrite(clLog[i]) =>
               \E j \in 1..(i - 1) :
                   clLog[j].ev = "response" /\ clLog[j].data \in GoodResponses
    /\ \A i \in 1..Len(clLog) :
           clLog[i].ev = "response" =>
               IF clLog[i].data \in GoodResponses
                   THEN IF i = Len(clLog) THEN clPc = "identity" /\ clConn = "open"
                        ELSE IsWrite(clLog[i + 1])
                   ELSE /\ Len(clLog) = i + 1
                        /\ clLog[i + 1] = Event("close", <<>>)
                        /\ clPc = "exited" /\ clConn = "closed"
    /\ \A i \in 1..Len(clLog) :
           /\ clLog[i].ev = "dial failed" =>
                  (Len(clLog) = i /\ clPc = "exited" /\ clConn = "none")
           /\ clLog[i].ev = "request failed" =>
                  /\ Len(clLog) = i + 1
                  /\ clLog[i + 1] = Event("close", <<>>)
                  /\ clPc = "exited" /\ clConn = "closed"

\* A 200 response with "101" in a header line only: the client closes and ends
C29_Witness ==
    /\ clLog = <<Event("dial", <<>>), Event("request", <<>>),
                 Event("response", Resp200), Event("close", <<>>)>>
    /\ clPc = "exited"
    /\ clConn = "closed"

\* ============================================ the hub lock and the sessions
\* Claims on Spec about what a handler can do while another one is inside
\* hub.broadcast, and about what reaches a stream and when.

\* The handler of s is inside hub.broadcast, in or before a Write to a
\* recipient's conn: a Write that does not return leaves it there
WritePending(s) == pc[s] = "send_pay" \/ (pc[s] = "bcast" /\ todo[s] # {})

\* The handler of t is at a call of the hub: register, unregister or broadcast
AtHubCall(t) == pc[t] \in {"register", "unregister", "bcast_lock"}

\* C31: while a Write of a broadcast to one recipient is pending, another
\* session that is at register, unregister or broadcast can go on: the hub
\* lock it needs is free.
C31_PendingWriteLeavesHubFree ==
    \A s \in Sessions : \A t \in Sessions \ {s} :
        (WritePending(s) /\ AtHubCall(t)) => MutexFree(hubMu)

\* A broadcast has c among the recipients it still writes to
Targeted(c) ==
    \E s \in Sessions : c \in todo[s] \/ (pc[s] = "send_pay" /\ cur[s] = c)

\* The handler of c has closed its stream: conn.Close has returned
StreamClosed(c) == connClosed[c] > 0

\* C32: once the server has closed a session's stream, the session is in no
\* client set and in no broadcast's loop, and nothing more is written to the
\* stream; a registered session's handler reaches conn.Close only after its
\* unregister returned, and a session whose stream was closed without an
\* unregister never was a member of any broadcast.
C32_NoBroadcastAfterClose ==
    /\ [](\A c \in Sessions :
            /\ StreamClosed(c) => (c \notin clients /\ ~Targeted(c))
            /\ pc[c] = "connclose" =>
                   (unregCount[c] = 1 /\ c \notin clients /\ ~Targeted(c))
            /\ (StreamClosed(c) /\ unregCount[c] = 0) =>
                   (wire[c] = <<>> /\ \A n \in 1..Len(bcasts) :
                                        c \notin bcasts[n].members))
    /\ [][\A c \in Sessions : StreamClosed(c) => wire'[c] = wire[c]]_vars

\* Bob's stream was closed after a first broadcast reached it, and a later
\* broadcast was made without him
C32_Witness ==
    \E c \in Sessions : \E n \in 1..Len(bcasts) : \E m \in 1..Len(bcasts) :
        /\ StreamClosed(c)
        /\ unregCount[c] = 1
        /\ n < m
        /\ DeliveredFrame(c, n)
        /\ bcasts[m].done
        /\ bcasts[m].members = Sessions \ {c}
        /\ \E t \in bcasts[m].members : DeliveredFrame(t, m)

\* ------------------------------------------------ the hub with fair handlers
\* A step of the handler of s that waits for h.mu: the Lock of register,
\* unregister or broadcast (lines 34, 41, 48)
LockStep(s) == Register(s) \/ Unregister(s) \/ BroadcastLock(s)

\* A step of the handler of s that waits for nothing but the processor or the
\* return of a Write: the sends of a broadcast, its Unlock, the Close
\* acknowledgment and the deferred conn.Close
RunStep(s) ==
    \/ SendHeader(s)
    \/ SendPayload(s)
    \/ BroadcastUnlock(s)
    \/ CloseHeader(s)
    \/ ClosePayload(s)
    \/ ConnClose(s)

\* The handlers as goroutines: a runnable handler runs, every Write returns,
\* and a handler waiting in Lock gets the mutex when it is released often
\* enough (sync.Mutex hands a starving waiter the mutex). The reads of the
\* handshake, of the identity frame and of the loop wait for the peer and
\* carry no fairness.
FairSpec ==
    /\ Spec
    /\ \A s \in Sessions : WF_vars(RunStep(s))
    /\ \A s \in Sessions : SF_vars(LockStep(s))

\* The broadcasts of one sender, by the order in which they took the hub lock
BroadcastsOf(s) == {n \in 1..Len(bcasts) : bcasts[n].sender = s}

\* The latest broadcast of s has returned
LastBroadcastDone(s) ==
    \E n \in 1..Len(bcasts) :
        /\ bcasts[n].sender = s
        /\ bcasts[n].done
        /\ \A m \in (n + 1)..Len(bcasts) : bcasts[m].sender # s

\* The session write locks the handler of s holds
WriteLocksOf(s) == {c \in Sessions : cMu[c] = s}

\* The handler of s is in a call of the hub: waiting for the hub lock or
\* holding it
InHubCall(s) == AtHubCall(s) \/ hubMu = s

\* C33: a session write lock is held only by the handler that holds the hub
\* lock, a handler waiting for the hub lock holds no session write lock, the
\* hub lock is held exactly by a handler inside the loop of broadcast, and
\* with every Write returning a handler that is in a register, unregister or
\* broadcast call gets out of it: it got the hub lock, completed and released
\* it.
C33_LocksNeverDeadlock ==
    /\ [](\A c \in Sessions : cMu[c] # NoOwner => hubMu = cMu[c])
    /\ [](\A s \in Sessions :
            /\ AtHubCall(s) => WriteLocksOf(s) = {}
            /\ hubMu = s <=> pc[s] \in {"bcast", "send_pay"})
    /\ \A s \in Sessions : InHubCall(s) ~> ~InHubCall(s)

\* Alice's handler holds the hub lock and Bob's write lock in a broadcast
\* while Bob's handler waits at a call of the hub
C33_Witness ==
    \E s \in Sessions : \E t \in Sessions \ {s} :
        /\ hubMu = s
        /\ cMu[t] = s
        /\ AtHubCall(t)

\* The peer of c keeps reading its stream: no Write to c has failed
KeepsReading(c) == ~peerGone[c]

\* C34: with fair handlers, a Text frame decoded in the loop of an Open
\* session leads to its broadcast having returned, and a broadcast that has
\* returned has written its frame, whole, to every session that was registered
\* when it took the hub lock and whose peer keeps reading.
C34_DecodedTextIsDelivered ==
    /\ \A s \in Sessions :
          (pc[s] = "bcast_lock") ~> (pc[s] = "read" /\ LastBroadcastDone(s))
    /\ [](\A n \in 1..Len(bcasts) :
            bcasts[n].done =>
                \A c \in bcasts[n].members : KeepsReading(c) => DeliveredFrame(c, n))

\* Alice's handler is back at its read after a broadcast that reached both
\* sessions, whose peers both keep reading
C34_Witness ==
    \E n \in 1..Len(bcasts) :
        /\ bcasts[n].done
        /\ pc[bcasts[n].sender] = "read"
        /\ bcasts[n].members = Sessions
        /\ \A c \in Sessions : KeepsReading(c) /\ DeliveredFrame(c, n)

\* The handler of s is inside globalHub.broadcast or about to enter it
Broadcasting(s) == pc[s] \in {"bcast_lock", "bcast", "send_pay"}

\* The handler of s has not called register: it is before line 145, or it
\* ended without the deferred unregister
NeverRegistered(s) ==
    \/ pc[s] \in {"handshake", "identity", "register"}
    \/ (pc[s] = "done" /\ unregCount[s] = 0)

\* C35: a handler that is in broadcast is registered and has not unregistered;
\* the sender of every broadcast was a member when the broadcast took the hub
\* lock, and a finished broadcast has written the sender its own message
\* (unless that write failed); a session that never registered has made no
\* broadcast.
C35_SenderIsRegistered ==
    /\ \A s \in Sessions :
        /\ Broadcasting(s) => (s \in clients /\ unregCount[s] = 0)
        /\ NeverRegistered(s) => \A n \in 1..Len(bcasts) : bcasts[n].sender # s
    /\ \A n \in 1..Len(bcasts) :
        LET s == bcasts[n].sender
        IN  /\ s \in bcasts[n].members
            /\ bcasts[n].done => (s \in bcasts[n].failed \/ DeliveredFrame(s, n))

\* Alice's broadcast went to her alone and she has her own message, while
\* Bob's handler ended without registering
C35_Witness ==
    \E n \in 1..Len(bcasts) : \E t \in Sessions :
        /\ bcasts[n].done
        /\ bcasts[n].members = {bcasts[n].sender}
        /\ DeliveredFrame(bcasts[n].sender, n)
        /\ t # bcasts[n].sender
        /\ pc[t] = "done"
        /\ unregCount[t] = 0

\* The server has written nothing to the stream of c since the 101 response
Silent(c) == wire[c] = <<>>

\* C36: the server writes nothing to a stream before the session is
\* registered, so nothing before it has read the identity frame, and nothing
\* after the session's unregister; every broadcast chunk on a stream belongs
\* to a broadcast that took the hub lock while the session was a member, so a
\* broadcast made before the session registered never shows on its stream.
C36_OnlyBroadcastsWhileRegistered ==
    /\ [](\A c \in Sessions :
            /\ NeverRegistered(c) => Silent(c)
            /\ \A i \in 1..Len(wire[c]) :
                  wire[c][i].b # 0 => c \in bcasts[wire[c][i].b].members
            /\ \A n \in 1..Len(bcasts) :
                  c \notin bcasts[n].members =>
                      /\ Positions(wire[c], n, "hdr") = {}
                      /\ Positions(wire[c], n, "pay") = {})
    /\ [][\A c \in Sessions :
            (c \notin clients \/ c \notin clients') => wire'[c] = wire[c]]_vars

\* Bob registered after Alice's first broadcast had returned: his stream has
\* frames, and none of them is that broadcast's
C36_Witness ==
    \E c \in Sessions : \E n \in 1..Len(bcasts) :
        /\ bcasts[n].done
        /\ c \notin bcasts[n].members
        /\ c \in clients
        /\ \E m \in (n + 1)..Len(bcasts) : DeliveredFrame(c, m)
        /\ \A i \in 1..Len(wire[c]) : wire[c][i].b > n

\* The handlers that hold a decoded Text frame not yet handed to the hub
Undelivered == {s \in Sessions : pc[s] = "bcast_lock"}

\* C37: every decoded Text frame is broadcast once, and before its sender
\* decodes the next one, so a sender's broadcasts take the hub lock in the
\* order of its frames; on every stream the chunks of one sender's broadcasts
\* come in that order and none comes twice; and a recipient that was a member
\* for two broadcasts of a sender and has the later one has the earlier one
\* too, unless the write of it failed.
C37_PerSenderFifo ==
    /\ nsent = Len(bcasts) + Cardinality(Undelivered)
    /\ \A s \in Sessions :
        /\ \A n \in BroadcastsOf(s) :
              ~bcasts[n].done => (n = CurrentBcast(s) /\ pc[s] \in {"bcast", "send_pay"})
        /\ pc[s] = "bcast_lock" => \A n \in BroadcastsOf(s) : bcasts[n].done
        /\ \A c \in Sessions :
            /\ NoChunkTwice(wire[c])
            /\ \A i \in 1..Len(wire[c]) : \A j \in (i + 1)..Len(wire[c]) :
                  (wire[c][i].b \in BroadcastsOf(s) /\ wire[c][j].b \in BroadcastsOf(s))
                      => wire[c][i].b <= wire[c][j].b
            /\ \A n \in BroadcastsOf(s) : \A m \in BroadcastsOf(s) :
                  (/\ n < m
                   /\ c \in bcasts[n].members \cap bcasts[m].members
                   /\ Positions(wire[c], m, "hdr") # {})
                      => (c \in bcasts[n].failed \/ DeliveredFrame(c, n))

\* Two broadcasts of Alice, both on Bob's stream, the first one first
C37_Witness ==
    \E s \in Sessions : \E c \in Sessions \ {s} :
        \E n \in BroadcastsOf(s) : \E m \in BroadcastsOf(s) :
            /\ n < m
            /\ bcasts[m].done
            /\ DeliveredFrame(c, n)
            /\ DeliveredFrame(c, m)
            /\ \A i \in Positions(wire[c], n, "pay") :
                  \A j \in Positions(wire[c], m, "hdr") : i < j

\* The handler of s has its display name: line 144 has run
Named(s) == pc[s] \notin {"handshake", "identity"}

\* C38: while a broadcast holds the hub lock the client set is the one it
\* found when it took the lock, failed writes or not, and a finished broadcast
\* leaves it as it was; the only steps that change the client set are a
\* register, which adds the registering client and nothing else, and an
\* unregister, which removes the unregistering client and nothing else; the
\* display name of a session never changes once it is set.
C38_HubOperationsFrame ==
    /\ [](\A s \in Sessions :
            pc[s] \in {"bcast", "send_pay"} => clients = bcasts[CurrentBcast(s)].members)
    /\ [][\A s \in Sessions :
            (pc[s] \in {"bcast", "send_pay"} /\ pc'[s] = "read")
                => clients' = bcasts'[CurrentBcast(s)].members]_vars
    /\ [][clients' # clients =>
            \E s \in Sessions :
                \/ /\ pc[s] = "register" /\ pc'[s] = "read"
                   /\ s \notin clients
                   /\ clients' = clients \cup {s}
                \/ /\ pc[s] = "unregister" /\ pc'[s] = "connclose"
                   /\ s \in clients
                   /\ clients' = clients \ {s}]_vars
    /\ [][\A s \in Sessions : Named(s) => username'[s] = username[s]]_vars

\* Alice's broadcast has returned with the write to Bob failed; both are
\* still in the client set, under the names they registered with
C38_Witness ==
    \E n \in 1..Len(bcasts) :
        /\ bcasts[n].done
        /\ bcasts[n].members = Sessions
        /\ bcasts[n].failed = Sessions \ {bcasts[n].sender}
        /\ clients = Sessions
        /\ username[1] = <<65, 108, 105, 99, 101>>
        /\ username[2] = <<66, 111, 98>>

\* The places of the client's writes in its history, in order
WriteIndexes == {i \in 1..Len(clLog) : IsWrite(clLog[i])}

RECURSIVE ConcatWrites(_)
\* The bytes the client has put on the stream up to event i of its history
ConcatWrites(i) ==
    IF i = 0 THEN <<>>
    ELSE IF IsWrite(clLog[i]) THEN ConcatWrites(i - 1) \o clLog[i].data
    ELSE ConcatWrites(i - 1)

\* The client-to-server stream
ClientStream == ConcatWrites(Len(clLog))

\* The write at place i put one whole frame on the stream, as the server's
\* decoder reads it
WholeFrame(i) ==
    LET f == readWebSocketFrame(clLog[i].data)
    IN  /\ f.err = "none"
        /\ f.opcode \in {OpText, OpClose}
        /\ Len(clLog[i].data) = 2 + Len(f.payload)

\* C39: every write of the client is a step of the foreground code: the
\* first one comes right after the accepted response and is the Text frame of
\* the username, which is the first frame the server's decoder finds on the
\* stream; every write that succeeds puts one whole Text or Close frame on the
\* stream, a Close frame or a failed write is the last write, and a turn of
\* the receive loop, whatever it read, writes nothing and leaves the
\* connection as it is.
C39_OnlyForegroundWrites ==
    /\ [](\A i \in WriteIndexes :
            /\ clLog[i].ev = "write" => WholeFrame(i)
            /\ (\A j \in WriteIndexes : i <= j) =>
                  /\ i > 1 /\ clLog[i - 1].ev = "response"
                  /\ \E name \in Usernames :
                        /\ Len(clLog[i].data) <= 2 + Len(name)
                        /\ clLog[i].data = Take(<<129, Len(name)>> \o name, Len(clLog[i].data))
                        /\ clLog[i].ev = "write" =>
                              LET f == readWebSocketFrame(ClientStream)
                              IN  f.err = "none" /\ f.opcode = OpText /\ f.payload = name
            /\ (\E j \in WriteIndexes : i < j) =>
                  (clLog[i].ev = "write" /\ readWebSocketFrame(clLog[i].data).opcode = OpText))
    /\ [][clRecv' # clRecv => (clLog' = clLog /\ clConn' = clConn)]_vars

\* The receive loop has read a Ping and a Text frame and the client has
\* written its username, one line and the Close frame of "quit", nothing else
C39_Witness ==
    /\ clRecv = <<(<<137, 0>>), (<<129, 2, 104, 105>>)>>
    /\ Cardinality(WriteIndexes) = 3
    /\ ClientStream = <<129, 5, 65, 108, 105, 99, 101, 129, 2, 104, 105, 136, 0>>
    /\ clPc = "exited"

====
